---- MODULE Spec2Model ----
(***************************************************************************)
(* Model of the resume Q&A backend: the session memory store and the       *)
(* conversational orchestrator (backend/agents/resume_agent.py) and the    *)
(* transport layer around them (backend/api/chat.py).                      *)
(*                                                                         *)
(* Text is a sequence of tokens, so that concatenation, joining and        *)
(* substring containment are computed rather than assumed.                 *)
(*                                                                         *)
(* A request is one chat turn.  Requests are interleaved cooperatively:    *)
(* one action is the code between two suspension points of a request.      *)
(***************************************************************************)
EXTENDS Integers, Sequences, FiniteSets, TLC

\* ------------------------------------------------------------------ bounds
\* Number of chat turns (requests) in a run.
MaxReq == 2
\* Number of chunks with an "output" the external agent stream produces in
\* one turn.
MaxChunks == 2

\* Number of those turns that may be streaming turns.
MaxStreams == 1

\* ------------------------------------------------------------------ inputs
Reqs == 1..MaxReq
Sessions == {"s1", "s2"}
\* What str(uuid.uuid4()) can return, as many ids as there are requests: a
\* call returns any of them, the one of an earlier call included.
UuidNames == <<"u1", "u2", "u3", "u4">>
Uuids == {UuidNames[i] : i \in Reqs}
\* The keys the memory_store dict can get.
SessionIds == Sessions \cup Uuids
\* The message of a request.  The code never looks into a message it has
\* accepted, so the requests get pairwise different messages: the case in
\* which the order of the saved messages shows.
MessageNames == <<"q1", "q2", "q3", "q4">>
MessagesOf(r) == {<<MessageNames[r]>>}
\* The "output" of the external agent executor (ainvoke) for a request: like
\* the messages, pairwise different between requests.
AnswerNames == <<"a1", "a2", "a3", "a4">>
OutputsOf(r) == {<<AnswerNames[r]>>}
\* The "output" of the k-th chunk with an output of the external agent stream
\* (astream).  The code never looks into a fragment, so the fragments of a
\* stream are pairwise different: the case in which their order shows.
FragmentNames == <<"f1", "f2", "f3", "f4">>
FragmentsAt(k) == {<<FragmentNames[k]>>}
\* A chunk of the external stream that has no "output" key (an action or
\* an intermediate step of the agent).
NoOutput == <<"<no output>">>
\* str(e) of the error raised by the external call.
ErrorDetails == {<<"rate", "limit">>}

\* A key that is not in the memory_store dict.
None == 0
\* Identities of the ConversationBufferMemory objects ever constructed.
ObjIds == 1..MaxReq

\* ------------------------------------------------------------------- state
VARIABLES
    memory_store,   \* ResumeAgent.memory_store: session id -> object id, or None
    chat_memory,    \* object id -> memory.chat_memory.messages of that object
    nextObj,        \* identity of the next object to be constructed
    req,            \* the requests: position and locals of every chat turn
    doneSeq,        \* the turns that ran to their end, in the order they ended
    response,       \* what the step just taken sent back to its caller
    resume_file,    \* the file at RESUME_DATA_PATH
    environ,        \* os.environ with the .env file: the configuration
    startup,        \* how far the process got in starting up
    agent_instance, \* resume_agent._agent_instance: None or the agent
    search          \* the locals of the search_resume call in progress

vars == <<memory_store, chat_memory, nextObj, req, doneSeq, response,
          resume_file, environ, startup, agent_instance, search>>

\* What a chat turn, a history request and a clear request leave alone: the
\* resume file, the process and the accessor call in progress.
envVars == <<resume_file, environ, startup, agent_instance, search>>

\* ------------------------------------------------------------ text helpers
RECURSIVE Join(_)
\* "".join(chunks)
Join(chunks) ==
    IF chunks = <<>> THEN <<>> ELSE Head(chunks) \o Join(Tail(chunks))

\* sub in text
Contains(text, sub) ==
    \E i \in 1..(Len(text) - Len(sub) + 1) :
        SubSeq(text, i, i + Len(sub) - 1) = sub

\* -------------------------------------------------------- langchain memory
HumanMessage(content) == [cls |-> "HumanMessage", content |-> content]
AIMessage(content) == [cls |-> "AIMessage", content |-> content]

add_user_message(messages, content) == Append(messages, HumanMessage(content))
add_ai_message(messages, content) == Append(messages, AIMessage(content))


\* ---------------------------------------------------- session memory store
\* _get_or_create_memory without its membership test: a new object on every
\* call.
get_or_create_memory_always(store, next, session_id) ==
    [store  |-> [store EXCEPT ![session_id] = next],
     memory |-> next,
     next   |-> next + 1]

\* _get_or_create_memory that hands one object to every session.
get_or_create_memory_shared(store, next, session_id) ==
    [store  |-> [store EXCEPT ![session_id] = 1],
     memory |-> 1,
     next   |-> IF next = 1 THEN 2 ELSE next]

\* ResumeAgent._get_or_create_memory: the store after the call, the object
\* returned, and the identity the next constructed object will get.  A
\* constructed ConversationBufferMemory starts with no messages (chat_memory
\* maps every object not yet written to the empty list).
get_or_create_memory(store, next, session_id) ==
    IF store[session_id] = None
    THEN [store  |-> [store EXCEPT ![session_id] = next],
          memory |-> next,
          next   |-> next + 1]
    ELSE [store  |-> store,
          memory |-> store[session_id],
          next   |-> next]

\* clear_memory that tests the key and forgets the del.
clear_memory_keep(store, session_id) == store

\* clear_memory that empties the whole dict.
clear_memory_all(store, session_id) == [s \in DOMAIN store |-> None]

\* ResumeAgent.clear_memory: the store after the call.
clear_memory(store, session_id) ==
    IF store[session_id] # None
    THEN [store EXCEPT ![session_id] = None]
    ELSE store

\* get_session_history with the isinstance test inverted.
get_session_history_swapped(store, memories, session_id) ==
    IF store[session_id] = None
    THEN <<>>
    ELSE LET messages == memories[store[session_id]]
         IN  [i \in 1..Len(messages) |->
                [type      |-> IF messages[i].cls = "HumanMessage"
                               THEN "ai" ELSE "human",
                 content   |-> messages[i].content,
                 timestamp |-> None]]

\* ResumeAgent.get_session_history: the list returned.
get_session_history(store, memories, session_id) ==
    IF store[session_id] = None
    THEN <<>>
    ELSE LET messages == memories[store[session_id]]
         IN  [i \in 1..Len(messages) |->
                [type      |-> IF messages[i].cls = "HumanMessage"
                               THEN "human" ELSE "ai",
                 content   |-> messages[i].content,
                 timestamp |-> None]]

\* ------------------------------------------------------------ orchestrator
\* The save of a turn that writes back the transcript it read at entry (here
\* the empty one) with its pair: the update of an overlapping turn is lost.
SaveTurnLost(messages, message, answer) ==
    add_ai_message(add_user_message(<<>>, message), answer)

\* The save without its add_user_message.
SaveTurnAnswerOnly(messages, message, answer) ==
    add_ai_message(messages, answer)

\* The two add_* calls that end every branch of chat and stream_chat.
SaveTurn(messages, message, answer) ==
    add_ai_message(add_user_message(messages, message), answer)

\* The apology without the error detail.
ChatErrorMsgNoDetail(e) ==
    <<"I apologize, but I encountered an error processing your question. ">>

\* error_msg of ResumeAgent.chat
ChatErrorMsg(e) ==
    <<"I apologize, but I encountered an error processing your question: ">>
    \o e
    \o <<". Please try rephrasing your question or ask about a specific aspect of the resume.">>

\* The stream's error text without the error detail.
StreamErrorMsgNoDetail(e) == <<"I encountered an error. Please try again.">>

\* error_msg of ResumeAgent.stream_chat
StreamErrorMsg(e) ==
    <<"I encountered an error: ">> \o e \o <<". Please try again.">>

\* full_response that keeps the last chunk only.
FullResponseLast(response_chunks) ==
    IF response_chunks = <<>> THEN <<>>
    ELSE response_chunks[Len(response_chunks)]

\* full_response of ResumeAgent.stream_chat
FullResponse(response_chunks) == Join(response_chunks)

\* ---------------------------------------------------------------- transport
\* The Optional[List[str]] field "sources" of a ChatStreamChunk: the empty
\* set is None, a singleton holds the list.
NoSources == {}
Sources(list) == {list}

\* ChatStreamChunk(content=chunk, is_complete=False)
FragmentChunk(content) ==
    [content |-> content, is_complete |-> FALSE, sources |-> NoSources]

\* The final record without its sources.
FinalChunkNoSources ==
    [content |-> <<>>, is_complete |-> TRUE, sources |-> NoSources]

\* ChatStreamChunk(content="", is_complete=True, sources=["resume_data"])
FinalChunk ==
    [content |-> <<>>, is_complete |-> TRUE,
     sources |-> Sources(<<"resume_data">>)]

\* ChatStreamChunk(content=f"Error: {str(e)}", is_complete=True)
ErrorChunk(e) ==
    [content |-> <<"Error: ">> \o e, is_complete |-> TRUE,
     sources |-> NoSources]

\* The step just taken returned nothing to a client.
NoResponse == [op |-> "none"]

\* ChatResponse(response=response, sources=["resume_data"], session_id=...)
ChatResponse(r, text, session_id) ==
    [op |-> "chat", req |-> r, status |-> 200,
     body |-> [response |-> text, sources |-> <<"resume_data">>,
               session_id |-> session_id]]

\* The dict returned by get_chat_history.
HistoryResponse(session_id, history) ==
    [op |-> "history", status |-> 200,
     body |-> [session_id |-> session_id, messages |-> history,
               total_messages |-> Len(history)]]

\* The dict returned by clear_chat_history.
ClearResponse(session_id) ==
    [op |-> "clear", status |-> 200,
     body |-> [message |-> <<"Chat history cleared for session ", session_id>>,
               session_id |-> session_id]]

\* The chunks the external agent stream can produce after k chunks with an
\* output.
ChunksAfter(k) ==
    {[output |-> f] : f \in FragmentsAt(k + 1)}
        \cup {[intermediate_step |-> NoOutput]}

\* ================================================= resume store accessors
\* (backend/tools/resume_tools.py)
\*
\* The text of a resume field is a sequence of characters, so that lower(),
\* strip(), substring matching and str() of a list are computed.  A rendering
\* is a sequence of characters and of the literal pieces of the f-strings.

\* The alphabet of the texts is Latin-1 (without NUL and the grave accent,
\* which a string of the model cannot hold) and, for the one rule of
\* str.lower() that looks beyond the character, the Greek sigmas.
\*
\* str.lower() of a capital that becomes one small letter whatever stands
\* around it: the letters A..Z and the accented capitals of Latin-1.
lower_map ==
    [A |-> "a", B |-> "b", C |-> "c", D |-> "d", E |-> "e", F |-> "f",
     G |-> "g", H |-> "h", I |-> "i", J |-> "j", K |-> "k", L |-> "l",
     M |-> "m", N |-> "n", O |-> "o", P |-> "p", Q |-> "q", R |-> "r",
     S |-> "s", T |-> "t", U |-> "u", V |-> "v", W |-> "w", X |-> "x",
     Y |-> "y", Z |-> "z"]
    @@
    ("À" :> "à") @@ ("Á" :> "á") @@ ("Â" :> "â") @@ ("Ã" :> "ã") @@
    ("Ä" :> "ä") @@ ("Å" :> "å") @@ ("Æ" :> "æ") @@ ("Ç" :> "ç") @@
    ("È" :> "è") @@ ("É" :> "é") @@ ("Ê" :> "ê") @@ ("Ë" :> "ë") @@
    ("Ì" :> "ì") @@ ("Í" :> "í") @@ ("Î" :> "î") @@ ("Ï" :> "ï") @@
    ("Ð" :> "ð") @@ ("Ñ" :> "ñ") @@ ("Ò" :> "ò") @@ ("Ó" :> "ó") @@
    ("Ô" :> "ô") @@ ("Õ" :> "õ") @@ ("Ö" :> "ö") @@ ("Ø" :> "ø") @@
    ("Ù" :> "ù") @@ ("Ú" :> "ú") @@ ("Û" :> "û") @@ ("Ü" :> "ü") @@
    ("Ý" :> "ý") @@ ("Þ" :> "þ")

\* The characters with the Unicode property Cased, and those with the
\* property Case_Ignorable, of the alphabet.
Cased ==
    {"A", "B", "C", "D", "E", "F", "G", "H", "I", "J", "K", "L", "M", "N",
     "O", "P", "Q", "R", "S", "T", "U", "V", "W", "X", "Y", "Z", "a", "b",
     "c", "d", "e", "f", "g", "h", "i", "j", "k", "l", "m", "n", "o", "p",
     "q", "r", "s", "t", "u", "v", "w", "x", "y", "z", "ª", "µ", "º", "À",
     "Á", "Â", "Ã", "Ä", "Å", "Æ", "Ç", "È", "É", "Ê", "Ë", "Ì", "Í", "Î",
     "Ï", "Ð", "Ñ", "Ò", "Ó", "Ô", "Õ", "Ö", "Ø", "Ù", "Ú", "Û", "Ü", "Ý",
     "Þ", "ß", "à", "á", "â", "ã", "ä", "å", "æ", "ç", "è", "é", "ê", "ë",
     "ì", "í", "î", "ï", "ð", "ñ", "ò", "ó", "ô", "õ", "ö", "ø", "ù", "ú",
     "û", "ü", "ý", "þ", "ÿ", "Σ", "σ", "ς"}
CaseIgnorable ==
    {"'", ".", ":", "^", "¨", "­", "¯", "´", "·", "¸"}

\* The capital sigma at position i is in final position: a cased character
\* precedes it and none follows it, the characters that are Case_Ignorable
\* being skipped on both sides.
final_sigma(text, i) ==
    LET before == {j \in 1..(i - 1) : text[j] \notin CaseIgnorable}
        after == {j \in (i + 1)..Len(text) : text[j] \notin CaseIgnorable}
    IN  /\ before # {}
        /\ text[CHOOSE j \in before : \A k \in before : k <= j] \in Cased
        /\ \/ after = {}
           \/ text[CHOOSE j \in after : \A k \in after : j <= k] \notin Cased

\* text.lower(): the capital sigma becomes the final or the medial small
\* sigma, every other capital its small letter.
lower(text) ==
    [i \in 1..Len(text) |->
        IF text[i] = "Σ"
        THEN (IF final_sigma(text, i) THEN "ς" ELSE "σ")
        ELSE IF text[i] \in DOMAIN lower_map THEN lower_map[text[i]]
        ELSE text[i]]

\* The characters str.strip() removes: those of the alphabet for which
\* str.isspace() holds (tab, newline, vertical tab, form feed, carriage
\* return, the separators 1c..1f, space, next line 85, no-break space a0).
Whitespace ==
    {"\t", "\n", "", "\f", "\r", "", "", "", "", " ", "", " "}

RECURSIVE lstrip(_)
lstrip(text) ==
    IF text # <<>> /\ Head(text) \in Whitespace
    THEN lstrip(Tail(text)) ELSE text

RECURSIVE rstrip(_)
rstrip(text) ==
    IF text # <<>> /\ text[Len(text)] \in Whitespace
    THEN rstrip(SubSeq(text, 1, Len(text) - 1)) ELSE text

\* text.strip()
strip(text) == rstrip(lstrip(text))

RECURSIVE JoinWith(_, _)
\* sep.join(parts)
JoinWith(sep, parts) ==
    IF parts = <<>> THEN <<>>
    ELSE IF Len(parts) = 1 THEN Head(parts)
    ELSE Head(parts) \o sep \o JoinWith(sep, Tail(parts))

\* An Optional value: None is the empty set, a present value v is {v}.
Absent == {}
Some(v) == {v}
ValueOf(opt) == CHOOSE v \in opt : TRUE
\* Python truth of an Optional[str] or Optional[list]: None, "" and [] are
\* false.
Truthy(opt) == opt # Absent /\ ValueOf(opt) # <<>>

\* ------------------------------------------------------------------ numbers
\* A number of the JSON document: an int, or a float with one decimal, held
\* as its count of tenths.
JsonInt(n) == [num |-> "int", tenths |-> n * 10]
JsonFloat(tenths) == [num |-> "float", tenths |-> tenths]

\* Python truth of an Optional number: None and zero are false.
TruthyNumber(opt) == opt # Absent /\ ValueOf(opt).tenths # 0

Digits == <<"0", "1", "2", "3", "4", "5", "6", "7", "8", "9">>
RECURSIVE str_int(_)
\* str(n) of an int that is not negative.
str_int(n) ==
    IF n < 10 THEN <<Digits[n + 1]>>
    ELSE str_int(n \div 10) \o <<Digits[(n % 10) + 1]>>

\* str(x) of a number: f"{edu['gpa']}".
str_number(x) ==
    IF x.num = "int" THEN str_int(x.tenths \div 10)
    ELSE str_int(x.tenths \div 10) \o <<".">> \o str_int(x.tenths % 10)

\* --------------------------------------------------------- resume documents
\* Education entries.
Edu1 ==
    [institution |-> <<"M", "I", "T">>, degree |-> <<"B", "S">>,
     field |-> <<"C", "S">>, graduation_date |-> <<"2", "0">>,
     gpa |-> Some(JsonFloat(38)),
     achievements |-> Some(<<<<"T", "o", "p">>, <<"A", "c", "e">>>>)]
Edu2 ==
    [institution |-> <<"U", "C", "L">>, degree |-> <<"M", "S">>,
     field |-> <<"A", "I">>, graduation_date |-> <<"2", "2">>,
     gpa |-> Absent, achievements |-> Absent]
\* An entry whose gpa is present and zero, and whose institution has an
\* accented capital.
Edu3 ==
    [institution |-> <<"É", "T", "H">>, degree |-> <<"B", "A">>,
     field |-> <<"C", "S">>, graduation_date |-> <<"2", "1">>,
     gpa |-> Some(JsonFloat(0)), achievements |-> Absent]
EducationLists ==
    {<<>>, <<Edu1>>, <<Edu1, Edu2>>, <<Edu2, Edu1>>, <<Edu1, Edu3>>}

\* Experience entries.
Exp1 ==
    [company |-> <<"A", "b">>, position |-> <<"C", "d">>,
     start_date |-> <<"1", "9">>, end_date |-> Absent,
     description |-> <<<<"a", "p", "i">>>>,
     technologies |-> Some(<<<<"G", "o">>>>), location |-> Absent]
Exp2 ==
    [company |-> <<"I", "B", "M">>, position |-> <<"D", "b", "a">>,
     start_date |-> <<"1", "7">>, end_date |-> Some(<<"1", "9">>),
     description |-> <<<<"s", "q", "l">>, <<"e", "t", "l">>>>,
     technologies |-> Absent, location |-> Some(<<"N", "Y">>)]
ExperienceLists == {<<>>, <<Exp1>>, <<Exp1, Exp2>>}

\* The skills dict, in the order of its keys: <<category, skills>> pairs.
SkillsDicts ==
    {<<>>,
     << <<<<"P", "r", "o", "g">>, <<<<"G", "o">>, <<"C">>>>>>,
        <<<<"W", "e", "b">>, <<<<"J", "S">>>>>> >>}

\* Projects.
Proj1 ==
    [name |-> <<"B", "o", "t">>, description |-> <<"a", "i", " ", "g", "o">>,
     technologies |-> <<<<"G", "o">>>>, url |-> Some(<<"b", ".", "i", "o">>),
     github_url |-> Absent, start_date |-> Some(<<"2", "1">>),
     end_date |-> Some(<<"2", "2">>)]
Proj2 ==
    [name |-> <<"W", "i", "k", "i">>, description |-> <<"d", "o", "c", "s">>,
     technologies |-> <<<<"J", "S">>, <<"C">>>>, url |-> Absent,
     github_url |-> Some(<<"g", "/", "w">>), start_date |-> Some(<<"2", "3">>),
     end_date |-> Absent]
ProjectLists == {<<>>, <<Proj1, Proj2>>}

\* Personal info and summary.
Info1 ==
    [name |-> <<"A", "n", "n">>, email |-> <<"a", "@", "b">>,
     location |-> Absent, phone |-> Absent, linkedin |-> Absent,
     github |-> Absent, website |-> Absent]
Info2 ==
    [name |-> <<"B", "o", "b">>, email |-> <<"b", "@", "c">>,
     location |-> Some(<<"N", "Y">>), phone |-> Some(<<"5", "5", "5">>),
     linkedin |-> Some(<<"i", "n", "/", "b">>),
     github |-> Some(<<"g", "/", "b">>), website |-> Some(<<"b", ".", "i", "o">>)]
PersonalInfos == {Info1, Info2}
Summaries == {Absent, Some(<<"g", "o", " ", "d", "e", "v">>)}

\* The resume documents: what json.load returns for a well-formed file.
ResumeDocuments ==
    [personal_info : PersonalInfos, summary : Summaries,
     education : EducationLists, experience : ExperienceLists,
     skills : SkillsDicts, projects : ProjectLists]

\* ---------------------------------------------------------------- rendering
\* The line for an optional field: present only when the field is truthy.
OptLine(label, opt) ==
    IF Truthy(opt) THEN << <<label>> \o ValueOf(opt) >> ELSE <<>>

NL == <<"\n">>
CommaSpace == <<",", " ">>

\* `if query and query.strip()`
Filtering(query) == Truthy(query) /\ strip(ValueOf(query)) # <<>>

\* `filtered if filtered else list` of the four list accessors: the entries
\* that passed the test, or every entry when none passed.  First the (wrong)
\* alternative that keeps the empty selection.
filtered_only(filtered, list) == filtered

filtered_or_all(filtered, list) == IF filtered # <<>> THEN filtered ELSE list

\* any(sub in text.lower() for text in texts)
AnyContains(texts, sub) ==
    \E i \in 1..Len(texts) : Contains(lower(texts[i]), sub)

\* The list stored under an optional key, [] when the key is absent.
ListOf(opt) == IF opt = Absent THEN <<>> ELSE ValueOf(opt)

\* The lines of get_personal_info's result.
PersonalInfoLines(resume_data) ==
    LET personal_info == resume_data.personal_info
        summary == ListOf(resume_data.summary)
    IN  << <<"Name: ">> \o personal_info.name,
           <<"Location: ">> \o
               (IF personal_info.location = Absent
                THEN <<"Not specified">>
                ELSE ValueOf(personal_info.location)),
           <<"Email: ">> \o personal_info.email >>
        \o OptLine("Phone: ", personal_info.phone)
        \o OptLine("LinkedIn: ", personal_info.linkedin)
        \o OptLine("GitHub: ", personal_info.github)
        \o OptLine("Website: ", personal_info.website)
        \o (IF summary # <<>>
            THEN << <<"\nProfessional Summary:\n">> \o summary >>
            ELSE <<>>)

\* The rendering of the personal info.  The (wrong) alternative applies the
\* filter to the lines of the result.
PersonalInfoFiltered(resume_data, query) ==
    LET result == PersonalInfoLines(resume_data)
        kept == IF Filtering(query)
                THEN filtered_or_all(
                        SelectSeq(result,
                            LAMBDA line :
                                Contains(lower(line), lower(ValueOf(query)))),
                        result)
                ELSE result
    IN  JoinWith(NL, kept)

PersonalInfoOf(resume_data, query) ==
    JoinWith(NL, PersonalInfoLines(resume_data))

\* One education entry, rendered.
RenderEducation(edu) ==
    JoinWith(NL,
        << <<"Institution: ">> \o edu.institution,
           <<"Degree: ">> \o edu.degree \o <<" in ">> \o edu.field,
           <<"Graduation: ">> \o edu.graduation_date >>
        \o (IF TruthyNumber(edu.gpa)
            THEN << <<"GPA: ">> \o str_number(ValueOf(edu.gpa)) >>
            ELSE <<>>)
        \o (IF Truthy(edu.achievements)
            THEN << <<"Achievements: ">>
                    \o JoinWith(CommaSpace, ValueOf(edu.achievements)) >>
            ELSE <<>>))

\* The test of get_education's filter.
EducationMatches(edu, query_lower) ==
    \/ Contains(lower(edu.institution), query_lower)
    \/ Contains(lower(edu.degree), query_lower)
    \/ Contains(lower(edu.field), query_lower)

EducationOf(resume_data, query) ==
    LET education_list ==
            IF Filtering(query)
            THEN filtered_or_all(
                    SelectSeq(resume_data.education,
                        LAMBDA edu : EducationMatches(edu, lower(ValueOf(query)))),
                    resume_data.education)
            ELSE resume_data.education
    IN  JoinWith(NL \o NL,
                 [i \in 1..Len(education_list) |-> RenderEducation(education_list[i])])

\* One experience entry, rendered.
RenderExperience(exp) ==
    JoinWith(NL,
        << <<"Company: ">> \o exp.company,
           <<"Position: ">> \o exp.position,
           <<"Duration: ">> \o exp.start_date \o <<" - ">>
               \o (IF Truthy(exp.end_date) THEN ValueOf(exp.end_date)
                   ELSE <<"Present">>) >>
        \o OptLine("Location: ", exp.location)
        \o << <<"Key Accomplishments:">> >>
        \o [i \in 1..Len(exp.description) |->
               <<"<bullet> ">> \o exp.description[i]]
        \o (IF Truthy(exp.technologies)
            THEN << <<"Technologies: ">>
                    \o JoinWith(CommaSpace, ValueOf(exp.technologies)) >>
            ELSE <<>>))

\* The test of get_experience's filter.
ExperienceMatches(exp, query_lower) ==
    \/ Contains(lower(exp.company), query_lower)
    \/ Contains(lower(exp.position), query_lower)
    \/ AnyContains(ListOf(exp.technologies), query_lower)

ExperienceOf(resume_data, query) ==
    LET experience_list ==
            IF Filtering(query)
            THEN filtered_or_all(
                    SelectSeq(resume_data.experience,
                        LAMBDA exp : ExperienceMatches(exp, lower(ValueOf(query)))),
                    resume_data.experience)
            ELSE resume_data.experience
    IN  JoinWith(NL \o NL,
                 [i \in 1..Len(experience_list) |-> RenderExperience(experience_list[i])])

\* One line of the skills rendering; item is a <<category, skills>> pair.
RenderSkills(item) == item[1] \o <<":", " ">> \o JoinWith(CommaSpace, item[2])

\* The test of get_skills's filter: the category name only.
SkillsMatches(item, category_lower) == Contains(lower(item[1]), category_lower)

SkillsOf(resume_data, category) ==
    LET skills_dict ==
            IF Filtering(category)
            THEN filtered_or_all(
                    SelectSeq(resume_data.skills,
                        LAMBDA item : SkillsMatches(item, lower(ValueOf(category)))),
                    resume_data.skills)
            ELSE resume_data.skills
    IN  JoinWith(NL, [i \in 1..Len(skills_dict) |-> RenderSkills(skills_dict[i])])

\* One project, rendered.
RenderProject(project) ==
    JoinWith(NL,
        << <<"Project: ">> \o project.name,
           <<"Description: ">> \o project.description,
           <<"Technologies: ">>
               \o JoinWith(CommaSpace, project.technologies) >>
        \o OptLine("Live Demo: ", project.url)
        \o OptLine("GitHub: ", project.github_url)
        \o (IF Truthy(project.start_date) /\ Truthy(project.end_date)
            THEN << <<"Timeline: ">> \o ValueOf(project.start_date)
                    \o <<" - ">> \o ValueOf(project.end_date) >>
            ELSE <<>>))

\* The test of get_projects's filter.
ProjectMatches(project, query_lower) ==
    \/ Contains(lower(project.name), query_lower)
    \/ Contains(lower(project.description), query_lower)
    \/ AnyContains(project.technologies, query_lower)

ProjectsOf(resume_data, query) ==
    LET projects_list ==
            IF Filtering(query)
            THEN filtered_or_all(
                    SelectSeq(resume_data.projects,
                        LAMBDA project :
                            ProjectMatches(project, lower(ValueOf(query)))),
                    resume_data.projects)
            ELSE resume_data.projects
    IN  JoinWith(NL \o NL,
                 [i \in 1..Len(projects_list) |-> RenderProject(projects_list[i])])

\* ------------------------------------------------------------ search_resume
\* repr() of a character other than a quote: the backslash is doubled, tab,
\* newline and carriage return get their letter, and every other character
\* of the alphabet that is not printable is written \xNN.
repr_escape ==
    ("" :> <<"\\", "x", "0", "1">>) @@ ("" :> <<"\\", "x", "0", "2">>) @@
    ("" :> <<"\\", "x", "0", "3">>) @@ ("" :> <<"\\", "x", "0", "4">>) @@
    ("" :> <<"\\", "x", "0", "5">>) @@ ("" :> <<"\\", "x", "0", "6">>) @@
    ("" :> <<"\\", "x", "0", "7">>) @@ ("" :> <<"\\", "x", "0", "8">>) @@
    ("\t" :> <<"\\", "t">>) @@ ("\n" :> <<"\\", "n">>) @@
    ("" :> <<"\\", "x", "0", "b">>) @@ ("\f" :> <<"\\", "x", "0", "c">>) @@
    ("\r" :> <<"\\", "r">>) @@ ("" :> <<"\\", "x", "0", "e">>) @@
    ("" :> <<"\\", "x", "0", "f">>) @@ ("" :> <<"\\", "x", "1", "0">>) @@
    ("" :> <<"\\", "x", "1", "1">>) @@ ("" :> <<"\\", "x", "1", "2">>) @@
    ("" :> <<"\\", "x", "1", "3">>) @@ ("" :> <<"\\", "x", "1", "4">>) @@
    ("" :> <<"\\", "x", "1", "5">>) @@ ("" :> <<"\\", "x", "1", "6">>) @@
    ("" :> <<"\\", "x", "1", "7">>) @@ ("" :> <<"\\", "x", "1", "8">>) @@
    ("" :> <<"\\", "x", "1", "9">>) @@ ("" :> <<"\\", "x", "1", "a">>) @@
    ("" :> <<"\\", "x", "1", "b">>) @@ ("" :> <<"\\", "x", "1", "c">>) @@
    ("" :> <<"\\", "x", "1", "d">>) @@ ("" :> <<"\\", "x", "1", "e">>) @@
    ("" :> <<"\\", "x", "1", "f">>) @@ ("\\" :> <<"\\", "\\">>) @@
    ("" :> <<"\\", "x", "7", "f">>) @@ ("" :> <<"\\", "x", "8", "0">>) @@
    ("" :> <<"\\", "x", "8", "1">>) @@ ("" :> <<"\\", "x", "8", "2">>) @@
    ("" :> <<"\\", "x", "8", "3">>) @@ ("" :> <<"\\", "x", "8", "4">>) @@
    ("" :> <<"\\", "x", "8", "5">>) @@ ("" :> <<"\\", "x", "8", "6">>) @@
    ("" :> <<"\\", "x", "8", "7">>) @@ ("" :> <<"\\", "x", "8", "8">>) @@
    ("" :> <<"\\", "x", "8", "9">>) @@ ("" :> <<"\\", "x", "8", "a">>) @@
    ("" :> <<"\\", "x", "8", "b">>) @@ ("" :> <<"\\", "x", "8", "c">>) @@
    ("" :> <<"\\", "x", "8", "d">>) @@ ("" :> <<"\\", "x", "8", "e">>) @@
    ("" :> <<"\\", "x", "8", "f">>) @@ ("" :> <<"\\", "x", "9", "0">>) @@
    ("" :> <<"\\", "x", "9", "1">>) @@ ("" :> <<"\\", "x", "9", "2">>) @@
    ("" :> <<"\\", "x", "9", "3">>) @@ ("" :> <<"\\", "x", "9", "4">>) @@
    ("" :> <<"\\", "x", "9", "5">>) @@ ("" :> <<"\\", "x", "9", "6">>) @@
    ("" :> <<"\\", "x", "9", "7">>) @@ ("" :> <<"\\", "x", "9", "8">>) @@
    ("" :> <<"\\", "x", "9", "9">>) @@ ("" :> <<"\\", "x", "9", "a">>) @@
    ("" :> <<"\\", "x", "9", "b">>) @@ ("" :> <<"\\", "x", "9", "c">>) @@
    ("" :> <<"\\", "x", "9", "d">>) @@ ("" :> <<"\\", "x", "9", "e">>) @@
    ("" :> <<"\\", "x", "9", "f">>) @@ (" " :> <<"\\", "x", "a", "0">>) @@
    ("­" :> <<"\\", "x", "a", "d">>)

\* repr() of a str: in single quotes, or in double quotes when the str holds
\* a single quote and no double quote; the enclosing quote is escaped.
Repr(text) ==
    LET quote == IF /\ \E i \in 1..Len(text) : text[i] = "'"
                    /\ \A i \in 1..Len(text) : text[i] # "\""
                 THEN "\"" ELSE "'"
        escaped(c) == IF c = quote THEN <<"\\", c>>
                      ELSE IF c \in DOMAIN repr_escape THEN repr_escape[c]
                      ELSE <<c>>
    IN  <<quote>> \o Join([i \in 1..Len(text) |-> escaped(text[i])])
            \o <<quote>>

\* str() of a list of strs.
StrOfList(list) ==
    <<"[">> \o JoinWith(CommaSpace, [i \in 1..Len(list) |-> Repr(list[i])])
        \o <<"]">>

\* The values of the optional keys that are present.
Present(opts) ==
    LET kept == SelectSeq(opts, LAMBDA opt : opt # Absent)
    IN  [i \in 1..Len(kept) |-> ValueOf(kept[i])]

\* str(value) for the values of personal_info, in key order.
PersonalInfoValues(personal_info) ==
    Present(<<Some(personal_info.name), Some(personal_info.email),
              personal_info.location, personal_info.phone,
              personal_info.linkedin, personal_info.github,
              personal_info.website>>)

\* str(value) for the str and list values of an education entry.
EducationValues(edu) ==
    <<edu.institution, edu.degree, edu.field, edu.graduation_date>>
    \o (IF edu.achievements = Absent THEN <<>>
        ELSE <<StrOfList(ValueOf(edu.achievements))>>)

\* str(value) for the str and list values of an experience entry, in key
\* order: company, position, start_date, end_date, description,
\* technologies, location.
ExperienceValues(exp) ==
    <<exp.company, exp.position, exp.start_date>>
    \o (IF exp.end_date = Absent THEN <<>> ELSE <<ValueOf(exp.end_date)>>)
    \o <<StrOfList(exp.description)>>
    \o (IF exp.technologies = Absent THEN <<>>
        ELSE <<StrOfList(ValueOf(exp.technologies))>>)
    \o (IF exp.location = Absent THEN <<>> ELSE <<ValueOf(exp.location)>>)

\* str(value) for the str and list values of a project, in key order: name,
\* description, technologies, url, github_url, start_date, end_date.
ProjectValues(project) ==
    <<project.name, project.description, StrOfList(project.technologies)>>
    \o Present(<<project.url, project.github_url, project.start_date,
                  project.end_date>>)

\* The section tests of search_resume.
SearchPersonalInfo(resume_data, keyword_lower) ==
    \/ AnyContains(PersonalInfoValues(resume_data.personal_info),
                   keyword_lower)
    \/ Contains(lower(ListOf(resume_data.summary)), keyword_lower)

SearchEducation(resume_data, keyword_lower) ==
    \E i \in 1..Len(resume_data.education) :
        AnyContains(EducationValues(resume_data.education[i]), keyword_lower)

\* exp_text = " ".join([...]); keyword_lower in exp_text.lower()
SearchExperience(resume_data, keyword_lower) ==
    \E i \in 1..Len(resume_data.experience) :
        Contains(lower(JoinWith(<<" ">>,
                                ExperienceValues(resume_data.experience[i]))),
                 keyword_lower)

SearchSkills(resume_data, keyword_lower) ==
    \E i \in 1..Len(resume_data.skills) :
        \/ Contains(lower(resume_data.skills[i][1]), keyword_lower)
        \/ AnyContains(resume_data.skills[i][2], keyword_lower)

SearchProjects(resume_data, keyword_lower) ==
    \E i \in 1..Len(resume_data.projects) :
        Contains(lower(JoinWith(<<" ">>,
                                ProjectValues(resume_data.projects[i]))),
                 keyword_lower)

GuidanceMessage == <<"Please provide a keyword to search for.">>
NotFoundMessage(keyword) ==
    <<"No information found related to '">> \o keyword
        \o <<"' in the resume.">>

\* What search_resume gives when every one of its reads finds the same
\* document: results, before the join, with header and rendering of every
\* section found.
SearchResults(resume_data, keyword) ==
    LET keyword_lower == lower(keyword)
        Section(found, header, rendering) ==
            IF found THEN <<header, rendering>> ELSE <<>>
    IN  Section(SearchPersonalInfo(resume_data, keyword_lower),
                <<"PERSONAL INFO:">>, PersonalInfoOf(resume_data, Absent))
        \o Section(SearchEducation(resume_data, keyword_lower),
                   <<"EDUCATION:">>, EducationOf(resume_data, Absent))
        \o Section(SearchExperience(resume_data, keyword_lower),
                   <<"EXPERIENCE:">>, ExperienceOf(resume_data, Absent))
        \o Section(SearchSkills(resume_data, keyword_lower),
                   <<"SKILLS:">>, SkillsOf(resume_data, Absent))
        \o Section(SearchProjects(resume_data, keyword_lower),
                   <<"PROJECTS:">>, ProjectsOf(resume_data, Absent))

\* The result of search_resume for a keyword that is not blank.
SearchOf(resume_data, keyword) ==
    LET results == SearchResults(resume_data, keyword)
    IN  IF results = <<>> THEN NotFoundMessage(keyword)
        ELSE JoinWith(NL \o NL, results)

\* ------------------------------------------------------------ the tools
\* What a call returns: a value, or the exception it raised.
Returned(value) == [ok |-> TRUE, value |-> value]
Raised(type, detail) == [ok |-> FALSE, type |-> type, detail |-> detail]

\* The resume file: missing, not JSON, or the JSON of a document.
MissingFile == [kind |-> "missing", data |-> <<>>]
MalformedFile == [kind |-> "malformed", data |-> <<>>]
JsonFile(resume_data) == [kind |-> "json", data |-> resume_data]

\* os.path.join(os.getcwd(), resume_path)
resume_path == <<"<cwd>/./backend/data/resume.json">>
\* str(e) of the json.JSONDecodeError
JSONDecodeError == <<"Expecting value: line 1 column 1 (char 0)">>

\* The document a cache filled at the start of SpecEdit would hold.
CachedResume ==
    [personal_info |-> Info2, summary |-> Absent, education |-> <<Edu1>>,
     experience |-> <<Exp1>>, skills |-> <<>>, projects |-> <<Proj1>>]

\* load_resume_data(): the parsed document, or the error raised.  Before it,
\* the (wrong) alternative that keeps the document of a first load.
load_resume_data_cached(file) == Returned(CachedResume)

load_resume_data(file) ==
    IF file.kind = "missing"
    THEN Raised("FileNotFoundError",
                <<"Resume data file not found at ">> \o resume_path)
    ELSE IF file.kind = "malformed"
    THEN Raised("ValueError",
                <<"Invalid JSON in resume data file: ">> \o JSONDecodeError)
    ELSE Returned(file.data)

\* The accessors.  The first statement of each loads the file, which may
\* raise; the rest computes the result from the data.
get_personal_info_filtered(file, query) ==
    LET loaded == load_resume_data(file)
    IN  IF loaded.ok THEN Returned(PersonalInfoFiltered(loaded.value, query)) ELSE loaded

get_personal_info(file, query) ==
    LET loaded == load_resume_data(file)
    IN  IF loaded.ok THEN Returned(PersonalInfoOf(loaded.value, query)) ELSE loaded

get_education(file, query) ==
    LET loaded == load_resume_data(file)
    IN  IF loaded.ok THEN Returned(EducationOf(loaded.value, query)) ELSE loaded

\* Before get_experience, the (wrong) alternative that swallows the failure of
\* the load and returns its text.
get_experience_swallowing(file, query) ==
    LET loaded == load_resume_data(file)
    IN  IF loaded.ok THEN Returned(ExperienceOf(loaded.value, query))
        ELSE Returned(loaded.detail)

get_experience(file, query) ==
    LET loaded == load_resume_data(file)
    IN  IF loaded.ok THEN Returned(ExperienceOf(loaded.value, query)) ELSE loaded

get_skills(file, category) ==
    LET loaded == load_resume_data(file)
    IN  IF loaded.ok THEN Returned(SkillsOf(loaded.value, category)) ELSE loaded

get_projects(file, query) ==
    LET loaded == load_resume_data(file)
    IN  IF loaded.ok THEN Returned(ProjectsOf(loaded.value, query)) ELSE loaded

\* ============================================================ configuration
\* (backend/config.py, backend/main.py, ResumeAgent._create_llm)
\*
\* The API key as a process can find it: not set, set to "", or set.
ApiKeys == {Absent, Some(<<>>), Some(<<"sk-test">>)}
\* OPENAI_API_KEY is os.environ's entry (what os.getenv reads); ENV_FILE_KEY
\* is the entry of the .env file of the working directory, which Settings
\* reads when os.environ has none; DEBUG is the debug flag.
Environs == [OPENAI_API_KEY : ApiKeys, ENV_FILE_KEY : ApiKeys, DEBUG : BOOLEAN]

\* get_settings(): Settings() fails validation without its required field.
get_settings(env) ==
    LET key == IF env.OPENAI_API_KEY # Absent THEN env.OPENAI_API_KEY
               ELSE env.ENV_FILE_KEY
    IN  IF key = Absent
        THEN Raised("ValidationError", <<"openai_api_key: Field required">>)
        ELSE Returned([openai_api_key |-> ValueOf(key), debug |-> env.DEBUG])

\* settings.debug of the settings create_app captured.
Debug(env) == get_settings(env).value.debug

KeyRequired == <<"OPENAI_API_KEY environment variable is required">>

\* ResumeAgent._create_llm.  The (wrong) alternative does not look at the
\* key.
create_llm_unchecked(env) == Returned("ChatOpenAI")

create_llm(env) ==
    LET api_key == env.OPENAI_API_KEY
    IN  IF ~Truthy(api_key) THEN Raised("ValueError", KeyRequired)
        ELSE Returned("ChatOpenAI")

\* The one ResumeAgent object a process constructs.
TheAgent == 1

\* get_resume_agent without its `is None` test: an agent, and with it a
\* session table, is constructed on every call.
get_resume_agent_fresh(instance, env) ==
    LET llm == create_llm(env)
    IN  IF llm.ok THEN Returned(instance + 1) ELSE llm

\* get_resume_agent(): the instance, constructed on the first call;
\* ResumeAgent() raises what _create_llm raises.
get_resume_agent(instance, env) ==
    IF instance # None THEN Returned(instance)
    ELSE LET llm == create_llm(env)
         IN  IF llm.ok THEN Returned(TheAgent) ELSE llm

\* The application serves requests once lifespan has reached its yield.
Serving == startup = "complete"

\* -------------------------------------------------------------------- init
\* A request that has not been received yet.
NoBody == [message |-> <<>>, session_id |-> Absent]

IdleReq ==
    [pc |-> "idle", state |-> "Idle", kind |-> "none", body |-> NoBody,
     message |-> <<>>, session_id |-> "", memory |-> None, answer |-> <<>>,
     response_chunks |-> <<>>, emitted |-> <<>>, sse |-> <<>>, error |-> <<>>,
     rounds |-> 0, agent |-> None]

\* No search_resume call is in progress.
NoSearch ==
    [section |-> 0, keyword |-> <<>>, resume_data |-> <<>>, results |-> <<>>]

\* The agent's store is empty and no request has been received.
InitStore ==
    /\ search = NoSearch
    /\ memory_store = [s \in SessionIds |-> None]
    /\ chat_memory = [o \in ObjIds |-> <<>>]
    /\ nextObj = 1
    /\ req = [r \in Reqs |-> IdleReq]
    /\ doneSeq = <<>>
    /\ response = NoResponse

\* A configuration with which the process starts.
ServingEnviron ==
    [OPENAI_API_KEY |-> Some(<<"sk-test">>), ENV_FILE_KEY |-> Absent,
     DEBUG |-> FALSE]

\* A well-formed resume document.
SampleResume ==
    [personal_info |-> Info2, summary |-> Some(<<"g", "o", " ", "d", "e", "v">>),
     education |-> <<Edu1, Edu2>>, experience |-> <<Exp1, Exp2>>,
     skills |-> << <<<<"P", "r", "o", "g">>, <<<<"G", "o">>, <<"C">>>>>>,
                   <<<<"W", "e", "b">>, <<<<"J", "S">>>>>> >>,
     projects |-> <<Proj1, Proj2>>]

\* The process after a successful startup: the agent is constructed.
Init ==
    /\ InitStore
    /\ resume_file = JsonFile(SampleResume)
    /\ environ = ServingEnviron
    /\ startup = "complete"
    /\ agent_instance = TheAgent

\* Request slots are interchangeable: they are taken in index order, so the
\* index of a request is its position in the order of calls.
CanStart(r) ==
    /\ Serving
    /\ req[r].pc = "idle"
    /\ IF r = 1 THEN TRUE ELSE req[r - 1].pc # "idle"

\* chat / stream_chat up to the first suspension point: fetch or create the
\* memory of the session, then call the external agent.  body is the request
\* body the turn came from, sent is what its endpoint has sent so far.
EnterWith(r, kind, body, message, session_id, sent) ==
    /\ CanStart(r)
    /\ LET g == get_or_create_memory(memory_store, nextObj, session_id)
       IN  /\ memory_store' = g.store
           /\ nextObj' = g.next
           /\ req' = [req EXCEPT ![r] =
                        [@ EXCEPT !.pc = "awaiting", !.state = "AwaitingModel",
                                  !.kind = kind, !.body = body,
                                  !.message = message,
                                  !.session_id = session_id,
                                  !.agent =
                                     get_resume_agent(agent_instance,
                                                      environ).value,
                                  !.memory = g.memory]]
    /\ response' = sent
    /\ UNCHANGED <<chat_memory, doneSeq>>
    /\ UNCHANGED envVars

\* A turn called with a message and a session id.
Enter(r, kind, message, session_id) ==
    EnterWith(r, kind, [message |-> message, session_id |-> Some(session_id)],
              message, session_id, NoResponse)

\* POST /api/chat: chat_endpoint calls agent.chat, which suspends in ainvoke.
ChatStart(r, message, session_id) == Enter(r, "chat", message, session_id)

\* POST /api/chat/stream: the response generator starts agent.stream_chat,
\* which suspends waiting for the first chunk of astream.
StreamStart(r, message, session_id) ==
    /\ Cardinality({q \in Reqs : req[q].kind = "stream"}) < MaxStreams
    /\ Enter(r, "stream", message, session_id)

\* ainvoke returns result["output"]: the exchange is saved and returned.
\* Before it, the (wrong) alternative that puts the memory it holds back into
\* the store.
ChatReturnRegistering(r, output) ==
    /\ req[r].pc = "awaiting" /\ req[r].kind = "chat"
    /\ chat_memory' = [chat_memory EXCEPT ![req[r].memory] =
                          SaveTurn(@, req[r].message, output)]
    /\ memory_store' = [memory_store EXCEPT ![req[r].session_id] =
                            req[r].memory]
    /\ req' = [req EXCEPT ![r] =
                 [@ EXCEPT !.pc = "done", !.state = "Completed",
                           !.answer = output]]
    /\ doneSeq' = Append(doneSeq, r)
    /\ response' = ChatResponse(r, output, req[r].session_id)
    /\ UNCHANGED nextObj
    /\ UNCHANGED envVars

ChatReturn(r, output) ==
    /\ req[r].pc = "awaiting" /\ req[r].kind = "chat"
    /\ chat_memory' = [chat_memory EXCEPT ![req[r].memory] =
                          SaveTurn(@, req[r].message, output)]
    /\ req' = [req EXCEPT ![r] =
                 [@ EXCEPT !.pc = "done", !.state = "Completed",
                           !.answer = output]]
    /\ doneSeq' = Append(doneSeq, r)
    /\ response' = ChatResponse(r, output, req[r].session_id)
    /\ UNCHANGED <<memory_store, nextObj>>
    /\ UNCHANGED envVars

\* ainvoke raises an Exception: the apology is saved and returned. Before it,
\* the (wrong) alternative of the except clause of chat: the error is raised
\* again to the endpoint, which answers 500.
ChatRaiseAgain(r, e) ==
    /\ req[r].pc = "awaiting" /\ req[r].kind = "chat"
    /\ req' = [req EXCEPT ![r] = [@ EXCEPT !.pc = "escaped", !.error = e]]
    /\ response' = [op |-> "chat", req |-> r, status |-> 500,
                    body |-> [detail |-> <<"Chat processing failed: ">> \o e]]
    /\ UNCHANGED <<memory_store, chat_memory, nextObj, doneSeq>>
    /\ UNCHANGED envVars

ChatRaise(r, e) ==
    /\ req[r].pc = "awaiting" /\ req[r].kind = "chat"
    /\ LET error_msg == ChatErrorMsg(e)
       IN  /\ chat_memory' = [chat_memory EXCEPT ![req[r].memory] =
                                 SaveTurn(@, req[r].message, error_msg)]
           /\ response' = ChatResponse(r, error_msg, req[r].session_id)
           /\ req' = [req EXCEPT ![r] =
                        [@ EXCEPT !.pc = "done", !.state = "Failed",
                                  !.error = e, !.answer = error_msg]]
    /\ doneSeq' = Append(doneSeq, r)
    /\ UNCHANGED <<memory_store, nextObj>>
    /\ UNCHANGED envVars

\* astream produces a chunk.  A chunk with an "output" is recorded and
\* yielded; the response generator wraps it in a record and yields that, and
\* both generators stay suspended at their yield.  Any other chunk is skipped.
StreamChunk(r, chunk) ==
    /\ req[r].pc = "awaiting" /\ req[r].kind = "stream"
    /\ Len(req[r].response_chunks) < MaxChunks
    /\ IF "output" \in DOMAIN chunk
       THEN LET content == chunk.output
            IN  req' = [req EXCEPT ![r] =
                          [@ EXCEPT !.pc = "yielded",
                                    !.response_chunks = Append(@, content),
                                    !.emitted = Append(@, content),
                                    !.sse = Append(@, FragmentChunk(content))]]
       ELSE req' = req
    /\ response' = NoResponse
    /\ UNCHANGED <<memory_store, chat_memory, nextObj, doneSeq>>
    /\ UNCHANGED envVars

\* The consumer of the response takes the record and asks for the next one.
\* After a fragment, stream_chat goes back to waiting for astream.  After the
\* error fragment, stream_chat ends and the response generator yields its
\* final record.
StreamResume(r) ==
    /\ req[r].pc \in {"yielded", "erryield"}
    /\ IF req[r].pc = "yielded"
       THEN req' = [req EXCEPT ![r] = [@ EXCEPT !.pc = "awaiting"]]
       ELSE req' = [req EXCEPT ![r] =
                      [@ EXCEPT !.pc = "done", !.sse = Append(@, FinalChunk)]]
    /\ response' = NoResponse
    /\ UNCHANGED <<memory_store, chat_memory, nextObj, doneSeq>>
    /\ UNCHANGED envVars

\* astream is exhausted: the joined fragments are saved, stream_chat ends and
\* the response generator yields its final record.
StreamEnd(r) ==
    /\ req[r].pc = "awaiting" /\ req[r].kind = "stream"
    /\ LET full_response == FullResponse(req[r].response_chunks)
       IN  /\ chat_memory' = [chat_memory EXCEPT ![req[r].memory] =
                                 SaveTurn(@, req[r].message, full_response)]
           /\ req' = [req EXCEPT ![r] =
                        [@ EXCEPT !.pc = "done", !.state = "Completed",
                                  !.answer = full_response,
                                  !.sse = Append(@, FinalChunk)]]
    /\ doneSeq' = Append(doneSeq, r)
    /\ response' = NoResponse
    /\ UNCHANGED <<memory_store, nextObj>>
    /\ UNCHANGED envVars

\* astream raises an Exception: the error text is saved, then yielded as one
\* more fragment.
StreamRaise(r, e) ==
    /\ req[r].pc = "awaiting" /\ req[r].kind = "stream"
    /\ LET error_msg == StreamErrorMsg(e)
       IN  /\ chat_memory' = [chat_memory EXCEPT ![req[r].memory] =
                                 SaveTurn(@, req[r].message, error_msg)]
           /\ req' = [req EXCEPT ![r] =
                        [@ EXCEPT !.pc = "erryield", !.state = "Failed",
                                  !.error = e, !.answer = error_msg,
                                  !.emitted = Append(@, error_msg),
                                  !.sse = Append(@, FragmentChunk(error_msg))]]
    /\ doneSeq' = Append(doneSeq, r)
    /\ response' = NoResponse
    /\ UNCHANGED <<memory_store, nextObj>>
    /\ UNCHANGED envVars

\* The agent passed to stream_chat_response raises an Exception out of its
\* stream (the agent is a parameter of the response generator): the response
\* generator yields its error record and ends.
StreamEscape(r, e) ==
    /\ req[r].pc = "awaiting" /\ req[r].kind = "stream"
    /\ req' = [req EXCEPT ![r] =
                 [@ EXCEPT !.pc = "escaped", !.error = e,
                           !.sse = Append(@, ErrorChunk(e))]]
    /\ response' = NoResponse
    /\ UNCHANGED <<memory_store, chat_memory, nextObj, doneSeq>>
    /\ UNCHANGED envVars

\* The client drops the connection of a streaming turn.  The consumer stops
\* iterating: a generator suspended at a yield is closed there (GeneratorExit),
\* one waiting for astream is cancelled there (CancelledError).  Neither is an
\* Exception, so no except branch of stream_chat or of the response generator
\* runs, and nothing after the suspension point runs.  A response whose body
\* was never iterated is closed before stream_chat was entered.
Drop(r) ==
    /\ req[r].kind = "stream"
    /\ req[r].pc \in {"responded", "awaiting", "yielded", "erryield"}
    /\ req' = [req EXCEPT ![r] = [@ EXCEPT !.pc = "dropped"]]
    /\ response' = NoResponse
    /\ UNCHANGED <<memory_store, chat_memory, nextObj, doneSeq>>
    /\ UNCHANGED envVars

\* GET /api/chat/history/{session_id}
GetChatHistory(session_id) ==
    /\ Serving
    /\ LET history == get_session_history(memory_store, chat_memory, session_id)
       IN  response' = HistoryResponse(session_id, history)
    /\ UNCHANGED <<memory_store, chat_memory, nextObj, req, doneSeq>>
    /\ UNCHANGED envVars

\* DELETE /api/chat/history/{session_id}
ClearChatHistory(session_id) ==
    /\ Serving
    /\ memory_store' = clear_memory(memory_store, session_id)
    /\ response' = ClearResponse(session_id)
    /\ UNCHANGED <<chat_memory, nextObj, req, doneSeq>>
    /\ UNCHANGED envVars

Next ==
    \/ \E r \in Reqs, s \in Sessions :
          \E m \in MessagesOf(r) : ChatStart(r, m, s)
    \/ \E r \in Reqs, s \in Sessions :
          \E m \in MessagesOf(r) : StreamStart(r, m, s)
    \/ \E r \in Reqs : \E o \in OutputsOf(r) : ChatReturn(r, o)
    \/ \E r \in Reqs, e \in ErrorDetails : ChatRaise(r, e)
    \/ \E r \in Reqs :
          \E c \in ChunksAfter(Len(req[r].response_chunks)) : StreamChunk(r, c)
    \/ \E r \in Reqs : StreamResume(r)
    \/ \E r \in Reqs : StreamEnd(r)
    \/ \E r \in Reqs, e \in ErrorDetails : StreamRaise(r, e)
    \/ \E r \in Reqs, e \in ErrorDetails : StreamEscape(r, e)
    \/ \E r \in Reqs : Drop(r)
    \/ \E s \in Sessions : GetChatHistory(s)
    \/ \E s \in Sessions : ClearChatHistory(s)

Spec == Init /\ [][Next]_vars

\* The non-streaming turns with the history endpoints.
NextChat ==
    \/ \E r \in Reqs, s \in Sessions :
          \E m \in MessagesOf(r) : ChatStart(r, m, s)
    \/ \E r \in Reqs : \E o \in OutputsOf(r) : ChatReturn(r, o)
    \/ \E r \in Reqs, e \in ErrorDetails : ChatRaise(r, e)
    \/ \E s \in Sessions : GetChatHistory(s)
    \/ \E s \in Sessions : ClearChatHistory(s)

SpecChat == Init /\ [][NextChat]_vars

\* The streaming turns with the history endpoints.
NextStream ==
    \/ \E r \in Reqs, s \in Sessions :
          \E m \in MessagesOf(r) : StreamStart(r, m, s)
    \/ \E r \in Reqs :
          \E c \in ChunksAfter(Len(req[r].response_chunks)) : StreamChunk(r, c)
    \/ \E r \in Reqs : StreamResume(r)
    \/ \E r \in Reqs : StreamEnd(r)
    \/ \E r \in Reqs, e \in ErrorDetails : StreamRaise(r, e)
    \/ \E r \in Reqs, e \in ErrorDetails : StreamEscape(r, e)
    \/ \E r \in Reqs : Drop(r)
    \/ \E s \in Sessions : GetChatHistory(s)
    \/ \E s \in Sessions : ClearChatHistory(s)

SpecStream == Init /\ [][NextStream]_vars

\* ------------------------------------------------- the accessors, called
\* The filter, category or keyword of a call.
QueryTexts ==
    {<<>>, <<" ">>, <<"\r">>, <<"M", "I", "T">>, <<"s">>, <<"a", "i">>,
     <<"g", "o">>, <<"P", "r", "o">>, <<"d">>, <<"c">>, <<"b", " ", "c">>,
     <<"z", "z">>, <<" ", "s">>, <<"É", "t">>}
Queries == {Absent} \cup {Some(q) : q \in QueryTexts}

\* The files an accessor can find at RESUME_DATA_PATH.
ResumeFiles ==
    {MissingFile, MalformedFile} \cup {JsonFile(d) : d \in ResumeDocuments}

\* What a call of a tool gave back to its caller.
ToolResponse(tool, arg, result) ==
    [op |-> "tool", tool |-> tool, arg |-> arg, result |-> result]

\* The state an accessor leaves alone: all of it.  The accessors are called
\* one at a time: a call is interleaved only with edits of the file.
ToolFrame ==
    /\ search.section = 0
    /\ UNCHANGED <<memory_store, chat_memory, nextObj, req, doneSeq, envVars>>

CallGetPersonalInfo(query) ==
    /\ response' = ToolResponse("get_personal_info", query,
                                get_personal_info(resume_file, query))
    /\ ToolFrame

CallGetEducation(query) ==
    /\ response' = ToolResponse("get_education", query,
                                get_education(resume_file, query))
    /\ ToolFrame

CallGetExperience(query) ==
    /\ response' = ToolResponse("get_experience", query,
                                get_experience(resume_file, query))
    /\ ToolFrame

CallGetSkills(category) ==
    /\ response' = ToolResponse("get_skills", category,
                                get_skills(resume_file, category))
    /\ ToolFrame

CallGetProjects(query) ==
    /\ response' = ToolResponse("get_projects", query,
                                get_projects(resume_file, query))
    /\ ToolFrame

\* The sections of search_resume, in the order it goes through them: the
\* test of a section on the document search_resume loaded, its header, and
\* `await get_*.ainvoke({})`, which loads the file again.
SearchSections == 1..5
SectionFound(k, resume_data, keyword_lower) ==
    CASE k = 1 -> SearchPersonalInfo(resume_data, keyword_lower)
      [] k = 2 -> SearchEducation(resume_data, keyword_lower)
      [] k = 3 -> SearchExperience(resume_data, keyword_lower)
      [] k = 4 -> SearchSkills(resume_data, keyword_lower)
      [] k = 5 -> SearchProjects(resume_data, keyword_lower)
SectionHeader(k) ==
    CASE k = 1 -> <<"PERSONAL INFO:">>
      [] k = 2 -> <<"EDUCATION:">>
      [] k = 3 -> <<"EXPERIENCE:">>
      [] k = 4 -> <<"SKILLS:">>
      [] k = 5 -> <<"PROJECTS:">>
SectionCall(k, file) ==
    CASE k = 1 -> get_personal_info(file, Absent)
      [] k = 2 -> get_education(file, Absent)
      [] k = 3 -> get_experience(file, Absent)
      [] k = 4 -> get_skills(file, Absent)
      [] k = 5 -> get_projects(file, Absent)

\* The first section from k on whose test passes, 0 when there is none.
NextSection(k, resume_data, keyword_lower) ==
    LET found == {j \in SearchSections :
                     j >= k /\ SectionFound(j, resume_data, keyword_lower)}
    IN  IF found = {} THEN 0
        ELSE CHOOSE j \in found : \A i \in found : j <= i

\* What search_resume leaves alone.
SearchFrame ==
    UNCHANGED <<memory_store, chat_memory, nextObj, req, doneSeq,
                resume_file, environ, startup, agent_instance>>

\* search_resume up to its first `await get_*.ainvoke({})`: a blank keyword is
\* answered before the file is read; otherwise the file is loaded and the
\* sections are tested on that document up to the first that passes, whose
\* header is appended.  When none passes the not-found message is returned.
CallSearchResume(keyword) ==
    /\ search.section = 0
    /\ IF keyword = <<>> \/ strip(keyword) = <<>>
       THEN /\ response' = ToolResponse("search_resume", Some(keyword),
                                        Returned(GuidanceMessage))
            /\ search' = search
       ELSE LET resume_data == load_resume_data(resume_file)
            IN  IF ~resume_data.ok
                THEN /\ response' = ToolResponse("search_resume",
                                                 Some(keyword), resume_data)
                     /\ search' = search
                ELSE LET k == NextSection(1, resume_data.value,
                                          lower(keyword))
                     IN  IF k = 0
                         THEN /\ response' =
                                    ToolResponse("search_resume",
                                       Some(keyword),
                                       Returned(NotFoundMessage(keyword)))
                              /\ search' = search
                         ELSE /\ response' = NoResponse
                              /\ search' =
                                    [section |-> k, keyword |-> keyword,
                                     resume_data |-> resume_data.value,
                                     results |-> <<SectionHeader(k)>>]
    /\ SearchFrame

\* search_resume from one `await get_*.ainvoke({})` to the next: the accessor
\* of the section loads the file as it is now; its failure ends the call, its
\* rendering is appended, and the sections after it are tested, on the
\* document search_resume loaded, up to the next that passes.  After the
\* last one the results are joined and returned.
SearchSection ==
    /\ search.section # 0
    /\ LET rendering == SectionCall(search.section, resume_file)
       IN  IF ~rendering.ok
           THEN /\ response' = ToolResponse("search_resume",
                                            Some(search.keyword), rendering)
                /\ search' = NoSearch
           ELSE LET results == Append(search.results, rendering.value)
                    k == NextSection(search.section + 1, search.resume_data,
                                     lower(search.keyword))
                IN  IF k = 0
                    THEN /\ response' =
                               ToolResponse("search_resume",
                                  Some(search.keyword),
                                  Returned(JoinWith(NL \o NL, results)))
                         /\ search' = NoSearch
                    ELSE /\ response' = NoResponse
                         /\ search' =
                               [search EXCEPT
                                   !.section = k,
                                   !.results =
                                      Append(results, SectionHeader(k))]
    /\ SearchFrame

\* The accessors called on a file, as the tool-calling layer and the tests
\* call them.
InitTools ==
    /\ InitStore
    /\ resume_file \in ResumeFiles
    /\ environ = ServingEnviron
    /\ startup = "complete"
    /\ agent_instance = TheAgent

NextTools ==
    \/ \E q \in Queries : CallGetPersonalInfo(q)
    \/ \E q \in Queries : CallGetEducation(q)
    \/ \E q \in Queries : CallGetExperience(q)
    \/ \E q \in Queries : CallGetSkills(q)
    \/ \E q \in Queries : CallGetProjects(q)
    \/ \E k \in QueryTexts : CallSearchResume(k)
    \/ SearchSection

SpecTools == InitTools /\ [][NextTools]_vars

\* ======================================================= the HTTP endpoints
\* (backend/api/chat.py, backend/main.py)
\*
\* The body of a POST: text that is not JSON, or a JSON object in which the
\* member message is missing, null, a number or a string, and the member
\* session_id is missing, null or a string.
NotJson ==
    [json |-> FALSE, message |-> [type |-> "missing", value |-> <<>>],
     session_id |-> [type |-> "missing", value |-> ""]]
BodiesOf(r) ==
    {NotJson} \cup
    [json : {TRUE},
     message : {[type |-> "missing", value |-> <<>>],
                [type |-> "null", value |-> <<>>],
                [type |-> "number", value |-> <<>>],
                [type |-> "str", value |-> <<>>],
                [type |-> "str", value |-> <<MessageNames[r]>>]},
     session_id : {[type |-> "missing", value |-> ""],
                   [type |-> "null", value |-> ""],
                   [type |-> "str", value |-> ""],
                   [type |-> "str", value |-> "s1"]}]

\* exc.errors() of the RequestValidationError FastAPI raises for a body:
\* the body is not JSON, or the required str message is missing or is not a
\* str.  An Optional[str] session_id accepts a null.
RequestValidationError(body) ==
    IF ~body.json
    THEN << [type |-> "json_invalid", loc |-> <<"body", "1">>,
             msg |-> <<"JSON decode error">>] >>
    ELSE IF body.message.type = "missing"
    THEN << [type |-> "missing", loc |-> <<"body", "message">>,
             msg |-> <<"Field required">>] >>
    ELSE IF body.message.type # "str"
    THEN << [type |-> "string_type", loc |-> <<"body", "message">>,
             msg |-> <<"Input should be a valid string">>] >>
    ELSE <<>>

\* chat_message: ChatMessage, the parameter of the two chat endpoints: the
\* validated body, or the validation error.
ChatMessage(body) ==
    IF RequestValidationError(body) # <<>>
    THEN Raised("RequestValidationError", RequestValidationError(body))
    ELSE Returned([message |-> body.message.value,
                   session_id |-> IF body.session_id.type = "str"
                                  THEN Some(body.session_id.value)
                                  ELSE Absent])

\* Python truth of an Optional[str] whose value is an atom of the model.
TruthyId(opt) == opt # Absent /\ ValueOf(opt) # ""

\* `chat_message.session_id or str(uuid.uuid4())`, with the (wrong)
\* alternative that generates an id for every request.
session_id_generated(body, uuid) == uuid

session_id_or_uuid(body, uuid) ==
    IF TruthyId(body.session_id) THEN ValueOf(body.session_id) ELSE uuid

\* The response FastAPI sends for a raised HTTPException.
HTTPException(op, r, status_code, detail) ==
    [op |-> op, req |-> r, status |-> status_code,
     body |-> [detail |-> detail]]

\* validation_exception_handler: the response for a body that fails the
\* validation of ChatMessage.  The message names the first error: its loc
\* joined with dots and its msg.
validation_exception_handler(op, r, errors, debug) ==
    LET loc == IF errors # <<>> THEN errors[1].loc ELSE <<"unknown">>
        field == JoinWith(<<".">>, [i \in 1..Len(loc) |-> <<loc[i]>>])
        msg == IF errors # <<>> THEN errors[1].msg
               ELSE <<"Validation error">>
    IN  [op |-> op, req |-> r, status |-> 422,
         body |-> [error |-> <<"Validation Error">>,
                   message |-> <<"'">> \o field \o <<"'. ">> \o msg,
                   details |-> IF debug THEN Some(errors) ELSE Absent]]

\* global_exception_handler: the response for an exception no handler caught.
global_exception_handler(op, r, type, e, debug) ==
    [op |-> op, req |-> r, status |-> 500,
     body |-> [error |-> <<"Internal server error">>,
               message |-> IF debug THEN e
                           ELSE <<"An unexpected error occurred">>,
               type |-> type]]

\* `except Exception as e: raise HTTPException(500, ...)` of the two chat
\* endpoints, with the (wrong) alternative that lets the exception through to
\* global_exception_handler.
chat_failed_unhandled(op, r, e, debug) ==
    global_exception_handler(op, r, "Exception", e, debug)

chat_failed(op, r, e, debug) ==
    HTTPException(op, r, 500, <<"Chat processing failed: ">> \o e)

\* The StreamingResponse of stream_chat_endpoint, before its body.
StreamingResponse(r, session_id) ==
    [op |-> "stream", req |-> r, status |-> 200,
     headers |-> [X_Session_ID |-> session_id]]

\* `not chat_message.message` of a body that passed the validation, with the
\* (wrong) alternative that accepts every message.
any_message_accepted(body) == FALSE

not_message(body) == body.message = <<>>

\* A request the endpoint answers before it has a session id or calls the
\* agent: it leaves nothing behind but its response.
Reject(r, sent) ==
    /\ CanStart(r)
    /\ response' = sent
    /\ UNCHANGED <<memory_store, chat_memory, nextObj, req, doneSeq>>
    /\ UNCHANGED envVars

\* POST /api/chat, up to the suspension of agent.chat in ainvoke. Before it,
\* the (wrong) alternative that looks at the message only after the session
\* of the request has been fetched or created.
ChatEndpointChecksLate(r, body, uuid) ==
    LET chat_message == ChatMessage(body)
    IN  IF ~chat_message.ok
        THEN Reject(r, validation_exception_handler(
                          "chat", r, chat_message.detail, Debug(environ)))
        ELSE IF not_message(chat_message.value)
        THEN /\ CanStart(r)
             /\ LET g == get_or_create_memory(
                            memory_store, nextObj,
                            session_id_or_uuid(chat_message.value, uuid))
                IN  /\ memory_store' = g.store
                    /\ nextObj' = g.next
             /\ response' = HTTPException("chat", r, 400,
                                          <<"Message field is required">>)
             /\ UNCHANGED <<chat_memory, req, doneSeq>>
             /\ UNCHANGED envVars
        ELSE EnterWith(r, "chat", chat_message.value,
                       chat_message.value.message,
                       session_id_or_uuid(chat_message.value, uuid),
                       NoResponse)

ChatEndpoint(r, body, uuid) ==
    LET chat_message == ChatMessage(body)
    IN  IF ~chat_message.ok
        THEN Reject(r, validation_exception_handler(
                          "chat", r, chat_message.detail, Debug(environ)))
        ELSE IF not_message(chat_message.value)
        THEN Reject(r, HTTPException("chat", r, 400,
                                     <<"Message field is required">>))
        ELSE EnterWith(r, "chat", chat_message.value,
                       chat_message.value.message,
                       session_id_or_uuid(chat_message.value, uuid),
                       NoResponse)

\* POST /api/chat/stream: the endpoint returns the StreamingResponse with its
\* headers; the response generator has not run yet, so stream_chat has not
\* been entered and no memory has been fetched or created.
StreamChatEndpoint(r, body, uuid) ==
    LET chat_message == ChatMessage(body)
    IN  IF ~chat_message.ok
        THEN Reject(r, validation_exception_handler(
                          "stream", r, chat_message.detail, Debug(environ)))
        ELSE IF not_message(chat_message.value)
        THEN Reject(r, HTTPException("stream", r, 400,
                                     <<"Message field is required">>))
        ELSE /\ Cardinality({q \in Reqs : req[q].kind = "stream"})
                   < MaxStreams
             /\ CanStart(r)
             /\ LET session_id ==
                        session_id_or_uuid(chat_message.value, uuid)
                IN  /\ req' = [req EXCEPT ![r] =
                                 [@ EXCEPT !.pc = "responded",
                                           !.kind = "stream",
                                           !.body = chat_message.value,
                                           !.message =
                                              chat_message.value.message,
                                           !.session_id = session_id,
                                           !.agent =
                                              get_resume_agent(
                                                 agent_instance,
                                                 environ).value]]
                    /\ response' = StreamingResponse(r, session_id)
             /\ UNCHANGED <<memory_store, chat_memory, nextObj, doneSeq>>
             /\ UNCHANGED envVars

\* The server iterates the body of the StreamingResponse for the first time:
\* stream_chat_response calls agent.stream_chat, which fetches or creates the
\* memory of the session and suspends waiting for the first chunk of astream.
StreamIterate(r) ==
    /\ req[r].pc = "responded"
    /\ LET g == get_or_create_memory(memory_store, nextObj,
                                     req[r].session_id)
       IN  /\ memory_store' = g.store
           /\ nextObj' = g.next
           /\ req' = [req EXCEPT ![r] =
                        [@ EXCEPT !.pc = "awaiting",
                                  !.state = "AwaitingModel",
                                  !.memory = g.memory]]
    /\ response' = NoResponse
    /\ UNCHANGED <<chat_memory, doneSeq>>
    /\ UNCHANGED envVars

\* agent.chat raises an Exception to chat_endpoint (the agent is whatever
\* get_resume_agent returns): the endpoint answers 500.
ChatEscape(r, e) ==
    /\ req[r].pc = "awaiting" /\ req[r].kind = "chat"
    /\ req' = [req EXCEPT ![r] = [@ EXCEPT !.pc = "escaped", !.error = e]]
    /\ response' = chat_failed("chat", r, e, Debug(environ))
    /\ UNCHANGED <<memory_store, chat_memory, nextObj, doneSeq>>
    /\ UNCHANGED envVars

\* GET /api/chat/history/{session_id} when agent.get_session_history raises.
GetChatHistoryEscape(session_id, e) ==
    /\ Serving
    /\ response' = HTTPException("history", 0, 500,
                                 <<"Failed to retrieve history: ">> \o e)
    /\ UNCHANGED <<memory_store, chat_memory, nextObj, req, doneSeq>>
    /\ UNCHANGED envVars

\* DELETE /api/chat/history/{session_id} when agent.clear_memory raises.
ClearChatHistoryEscape(session_id, e) ==
    /\ Serving
    /\ response' = HTTPException("clear", 0, 500,
                                 <<"Failed to clear history: ">> \o e)
    /\ UNCHANGED <<memory_store, chat_memory, nextObj, req, doneSeq>>
    /\ UNCHANGED envVars

\* str(e) of the error an accessor raises when the external agent calls it
\* during a turn: none when the resume file loads.
DataErrors(file) ==
    IF load_resume_data(file).ok THEN {} ELSE {load_resume_data(file).detail}

\* The executor calls an accessor during the turn of request r.  The
\* accessors are handed to the executor only (tools=self.tools), which calls
\* them inside ainvoke or astream: when the file does not load, what
\* load_resume_data raises is the Exception that call raises in the try
\* block of chat or of stream_chat.
AccessorRaises(r) ==
    \E e \in DataErrors(resume_file) :
       IF req[r].kind = "chat" THEN ChatRaise(r, e) ELSE StreamRaise(r, e)

\* The chat endpoints and the failures of the history endpoints (their
\* successes are in SpecChat and SpecStream) of a process that has started,
\* with either debug setting and the resume file missing, not JSON or well
\* formed.
InitApi ==
    /\ InitStore
    /\ resume_file \in {MissingFile, MalformedFile, JsonFile(SampleResume)}
    /\ environ \in {[ServingEnviron EXCEPT !.DEBUG = debug] : debug \in BOOLEAN}
    /\ startup = "complete"
    /\ agent_instance = TheAgent

NextApi ==
    \/ \E r \in Reqs, uuid \in Uuids :
          \E body \in BodiesOf(r) : ChatEndpoint(r, body, uuid)
    \/ \E r \in Reqs, uuid \in Uuids :
          \E body \in BodiesOf(r) : StreamChatEndpoint(r, body, uuid)
    \/ \E r \in Reqs : StreamIterate(r)
    \/ \E r \in Reqs : \E o \in OutputsOf(r) : ChatReturn(r, o)
    \/ \E r \in Reqs, e \in ErrorDetails : ChatRaise(r, e)
    \/ \E r \in Reqs : AccessorRaises(r)
    \/ \E r \in Reqs, e \in ErrorDetails : ChatEscape(r, e)
    \/ \E r \in Reqs :
          \E c \in ChunksAfter(Len(req[r].response_chunks)) : StreamChunk(r, c)
    \/ \E r \in Reqs : StreamResume(r)
    \/ \E r \in Reqs : StreamEnd(r)
    \/ \E r \in Reqs, e \in ErrorDetails : StreamRaise(r, e)
    \/ \E r \in Reqs, e \in ErrorDetails : StreamEscape(r, e)
    \/ \E r \in Reqs : Drop(r)
    \/ \E s \in SessionIds, e \in ErrorDetails : GetChatHistoryEscape(s, e)
    \/ \E s \in SessionIds, e \in ErrorDetails : ClearChatHistoryEscape(s, e)

SpecApi == InitApi /\ [][NextApi]_vars

\* The two chat endpoints and the turns they start, with either debug
\* setting: what a POST does to the sessions, the transcripts and the turns.
\* (The 500 answers and the data errors are in SpecApi.)
InitPost ==
    /\ InitStore
    /\ resume_file = JsonFile(SampleResume)
    /\ environ \in {[ServingEnviron EXCEPT !.DEBUG = debug] : debug \in BOOLEAN}
    /\ startup = "complete"
    /\ agent_instance = TheAgent

NextPost ==
    \/ \E r \in Reqs, uuid \in Uuids :
          \E body \in BodiesOf(r) : ChatEndpoint(r, body, uuid)
    \/ \E r \in Reqs, uuid \in Uuids :
          \E body \in BodiesOf(r) : StreamChatEndpoint(r, body, uuid)
    \/ \E r \in Reqs : StreamIterate(r)
    \/ \E r \in Reqs : \E o \in OutputsOf(r) : ChatReturn(r, o)
    \/ \E r \in Reqs, e \in ErrorDetails : ChatRaise(r, e)
    \/ \E r \in Reqs :
          \E c \in ChunksAfter(Len(req[r].response_chunks)) : StreamChunk(r, c)
    \/ \E r \in Reqs : StreamResume(r)
    \/ \E r \in Reqs : StreamEnd(r)
    \/ \E r \in Reqs, e \in ErrorDetails : StreamRaise(r, e)
    \/ \E r \in Reqs : Drop(r)

SpecPost == InitPost /\ [][NextPost]_vars

\* ================================================================ startup
\* (backend/config.py, backend/main.py)
\*
\* load_dotenv() at the import of backend.config: the entries of the .env
\* file are put into os.environ where os.environ has none.  (The file is the
\* one Settings reads.)
load_dotenv(env) ==
    [env EXCEPT !.OPENAI_API_KEY =
         IF @ = Absent THEN env.ENV_FILE_KEY ELSE @]

\* The startup part of lifespan, up to its yield: the agent it leaves in
\* _agent_instance, or what it raises.
lifespan(instance, env) ==
    LET settings == get_settings(env)
    IN  IF ~settings.ok THEN settings
        ELSE IF settings.value.openai_api_key = <<>>
        THEN Raised("ValueError", KeyRequired)
        ELSE get_resume_agent(instance, env)

\* The import of backend.main: backend.config is imported (load_dotenv), then
\* `app = create_app()` reads the settings, which raises without a key.
ImportMain ==
    /\ startup = "importing"
    /\ environ' = load_dotenv(environ)
    /\ startup' = IF get_settings(environ').ok THEN "created" ELSE "failed"
    /\ UNCHANGED <<memory_store, chat_memory, nextObj, req, doneSeq, response>>
    /\ UNCHANGED <<resume_file, agent_instance, search>>

\* The server enters lifespan before it accepts a request: on a raise the
\* process exits, otherwise requests are served from the yield on.
LifespanStartup ==
    /\ startup = "created"
    /\ LET started == lifespan(agent_instance, environ)
       IN  IF started.ok
           THEN /\ agent_instance' = started.value
                /\ startup' = "complete"
           ELSE /\ agent_instance' = agent_instance
                /\ startup' = "failed"
    /\ UNCHANGED <<memory_store, chat_memory, nextObj, req, doneSeq, response>>
    /\ UNCHANGED <<resume_file, environ, search>>

\* A process from its start, in every environment, with the non-streaming
\* turns and the history endpoints once it serves.
InitBoot ==
    /\ InitStore
    /\ resume_file = JsonFile(SampleResume)
    /\ environ \in Environs
    /\ startup = "importing"
    /\ agent_instance = None

NextBoot ==
    \/ ImportMain
    \/ LifespanStartup
    \/ \E r \in Reqs, s \in Sessions :
          \E m \in MessagesOf(r) : ChatStart(r, m, s)
    \/ \E r \in Reqs : \E o \in OutputsOf(r) : ChatReturn(r, o)
    \/ \E r \in Reqs, e \in ErrorDetails : ChatRaise(r, e)
    \/ \E s \in Sessions : GetChatHistory(s)
    \/ \E s \in Sessions : ClearChatHistory(s)

SpecBoot == InitBoot /\ [][NextBoot]_vars

\* ------------------------------------------------ the file under external edit
\* A second document, as an editor of the file may leave it.
EditedResume ==
    [personal_info |-> Info1, summary |-> Absent,
     education |-> <<Edu2, Edu1>>, experience |-> <<Exp2>>,
     skills |-> <<>>, projects |-> <<Proj2>>]

\* The contents an external edit can leave at RESUME_DATA_PATH.
EditedFiles ==
    {MissingFile, MalformedFile, JsonFile(SampleResume), JsonFile(EditedResume)}

\* An external edit of the file, between two accessor calls or between two
\* reads of a search_resume call.
WriteFile(file) ==
    /\ resume_file' = file
    /\ UNCHANGED <<memory_store, chat_memory, nextObj, req, doneSeq, response>>
    /\ UNCHANGED <<environ, startup, agent_instance, search>>

\* The accessors called while the file is edited.
InitEdit ==
    /\ InitStore
    /\ resume_file = JsonFile(SampleResume)
    /\ environ = ServingEnviron
    /\ startup = "complete"
    /\ agent_instance = TheAgent

NextEdit ==
    \/ \E f \in EditedFiles : WriteFile(f)
    \/ \E q \in Queries : CallGetPersonalInfo(q)
    \/ \E q \in Queries : CallGetEducation(q)
    \/ \E q \in Queries : CallGetExperience(q)
    \/ \E q \in Queries : CallGetSkills(q)
    \/ \E q \in Queries : CallGetProjects(q)
    \/ \E k \in QueryTexts : CallSearchResume(k)
    \/ SearchSection

SpecEdit == InitEdit /\ [][NextEdit]_vars

\* ------------------------------------------- the rounds of the agent executor
\* AgentExecutor(..., max_iterations=3)
max_iterations == 3

\* The "output" of an executor that has used up max_iterations.  The
\* executor is built without early_stopping_method, so the library's
\* "force" applies: the executor leaves its loop and ainvoke returns the
\* output the agent's return_stopped_response gives, one of the two wordings
\* of the library.  resume_agent.py does not look at the wording.
StoppedTexts ==
    {<<"Agent stopped due to iteration limit or time limit.">>,
     <<"Agent stopped due to max iterations.">>}

\* One round of the executor inside ainvoke: the model asks for a tool, the
\* tool is called and its result noted.
AgentRound(r) ==
    /\ req[r].pc = "awaiting" /\ req[r].kind = "chat"
    /\ req[r].rounds < max_iterations
    /\ req' = [req EXCEPT ![r] = [@ EXCEPT !.rounds = @ + 1]]
    /\ UNCHANGED <<memory_store, chat_memory, nextObj, doneSeq, response>>
    /\ UNCHANGED envVars

\* The model answers in a round within the ceiling: ainvoke returns.
AgentFinish(r, output) ==
    /\ req[r].rounds < max_iterations
    /\ ChatReturn(r, output)

\* The model or a tool raises in a round within the ceiling: ainvoke raises.
AgentRaise(r, e) ==
    /\ req[r].rounds < max_iterations
    /\ ChatRaise(r, e)

\* The ceiling is reached: ainvoke returns the stop text as result["output"],
\* which chat takes like any answer.
AgentStopped(r, output) ==
    /\ req[r].rounds = max_iterations
    /\ ChatReturn(r, output)

\* The non-streaming turns with the rounds of the executor.
NextTurn ==
    \/ \E r \in Reqs, s \in Sessions :
          \E m \in MessagesOf(r) : ChatStart(r, m, s)
    \/ \E r \in Reqs : AgentRound(r)
    \/ \E r \in Reqs : \E o \in OutputsOf(r) : AgentFinish(r, o)
    \/ \E r \in Reqs, e \in ErrorDetails : AgentRaise(r, e)
    \/ \E r \in Reqs : \E o \in StoppedTexts : AgentStopped(r, o)

SpecTurn == Init /\ [][NextTurn]_vars

\* ================================================================== claims
\* The list get_session_history returns for a session in the current state.
Snapshot(s) == get_session_history(memory_store, chat_memory, s)

\* Turn r is a turn of session s that no clear of s has followed: the memory
\* it fetched when it was called is the one the store holds for s.
TurnOf(r, s) ==
    /\ req[r].pc # "idle"
    /\ req[r].session_id = s
    /\ req[r].memory = memory_store[s]

\* Every turn of session s so far is in flight or has completed successfully.
AllSuccessful(s) ==
    \A r \in Reqs : TurnOf(r, s) => req[r].state \in {"AwaitingModel", "Completed"}

\* The successfully completed turns of session s, in the order they were
\* called (requests are numbered in call order).
RECURSIVE CalledFrom(_, _)
CalledFrom(r, s) ==
    IF r > MaxReq THEN <<>>
    ELSE (IF TurnOf(r, s) /\ req[r].state = "Completed" THEN <<r>> ELSE <<>>)
         \o CalledFrom(r + 1, s)

\* The same turns in the order they completed.
CompletedOf(s) ==
    SelectSeq(doneSeq, LAMBDA r : TurnOf(r, s) /\ req[r].state = "Completed")

\* One human entry and one assistant entry per turn of the sequence.
RECURSIVE Exchanges(_)
Exchanges(turns) ==
    IF turns = <<>> THEN <<>>
    ELSE << [type |-> "human", content |-> req[Head(turns)].message,
             timestamp |-> None],
            [type |-> "ai", content |-> req[Head(turns)].answer,
             timestamp |-> None] >>
         \o Exchanges(Tail(turns))

\* C1 as stated: after N successful turns on a session and no clear, the
\* snapshot is the N human/assistant pairs in the order the turns were called.
C1_CallOrder ==
    \A s \in Sessions :
        AllSuccessful(s) => Snapshot(s) = Exchanges(CalledFrom(1, s))

\* C1 amended: after N successful turns on a session and no clear, the
\* snapshot has exactly 2N messages, one human message followed by one
\* assistant message per turn, the pairs in the order the turns completed.
C1_CompletionOrder ==
    \A s \in Sessions :
        AllSuccessful(s) =>
            /\ Snapshot(s) = Exchanges(CompletedOf(s))
            /\ Len(Snapshot(s)) = 2 * Len(CompletedOf(s))

\* Two turns of one session have completed successfully, the later call first.
C1_Witness ==
    \E s \in Sessions :
        /\ AllSuccessful(s)
        /\ Len(CompletedOf(s)) = 2
        /\ CompletedOf(s) # CalledFrom(1, s)
        /\ Len(Snapshot(s)) = 4

\* The two entries a turn saves: its message, then its answer.
SavedPair(message, answer) == <<HumanMessage(message), AIMessage(answer)>>

\* The step appends exactly the pair to the memory object the turn holds and
\* leaves every other memory object and the store as they were.
AppendsPair(r, message, answer) ==
    /\ chat_memory'[req[r].memory] =
           chat_memory[req[r].memory] \o SavedPair(message, answer)
    /\ \A o \in ObjIds : o # req[r].memory => chat_memory'[o] = chat_memory[o]
    /\ memory_store' = memory_store

\* C2: a chat turn whose external call raises returns normally; the step
\* appends exactly one human message (the input) and one assistant message
\* (the apology), and the text returned is that apology and contains the
\* error detail.
C2_ChatErrorSaved ==
    [][\A r \in Reqs :
         (req[r].kind = "chat" /\ req[r].state = "AwaitingModel"
              /\ req'[r].state = "Failed")
         => /\ response'.op = "chat" /\ response'.req = r
            /\ response'.status = 200
            /\ AppendsPair(r, req[r].message, response'.body.response)
            /\ Contains(response'.body.response, req'[r].error)
            /\ req'[r].error \in ErrorDetails]_vars

\* A chat turn has failed and its caller holds the apology, which is the last
\* message of the transcript.
C2_Witness ==
    \E r \in Reqs :
        /\ req[r].kind = "chat" /\ req[r].state = "Failed"
        /\ response.op = "chat" /\ response.req = r
        /\ LET messages == chat_memory[req[r].memory]
           IN  /\ Len(messages) >= 2
               /\ messages[Len(messages)].content = response.body.response

\* The step is the start of a turn on session s.
StartsTurnOn(s) ==
    \E r \in Reqs :
        req[r].pc = "idle" /\ req'[r].pc # "idle" /\ req'[r].session_id = s

\* C3: the snapshot of a session is empty right after its clear and stays
\* empty as long as no new turn is started on the session, whatever the
\* turns started before the clear do in between.
C3_ClearThenEmpty ==
    [][\A s \in Sessions :
         ((response' = ClearResponse(s) \/ memory_store[s] = None)
              /\ ~StartsTurnOn(s))
         => /\ memory_store'[s] = None
            /\ get_session_history(memory_store', chat_memory', s) = <<>>]_vars

\* A turn started before the clear of its session has completed after it, and
\* the snapshot then taken of the session is empty.
C3_Witness ==
    \E r \in Reqs :
        /\ req[r].state = "Completed"
        /\ memory_store[req[r].session_id] = None
        /\ Len(chat_memory[req[r].memory]) = 2
        /\ response = HistoryResponse(req[r].session_id, <<>>)

\* Concatenation of a sequence of texts, from the last one backwards.
RECURSIVE ConcatAll(_)
ConcatAll(texts) ==
    IF Len(texts) = 0 THEN <<>>
    ELSE ConcatAll(SubSeq(texts, 1, Len(texts) - 1)) \o texts[Len(texts)]

\* C4: when a streaming turn succeeds, the step appends the input as the
\* human message and the concatenation of the fragments emitted, in emission
\* order, as the assistant message.
C4_StreamSavesConcatenation ==
    [][\A r \in Reqs :
         (req[r].kind = "stream" /\ req[r].state = "AwaitingModel"
              /\ req'[r].state = "Completed")
         => /\ req'[r].emitted = req[r].emitted
            /\ AppendsPair(r, req[r].message, ConcatAll(req[r].emitted))]_vars

\* A streaming turn has succeeded after emitting two fragments.
C4_Witness ==
    \E r \in Reqs :
        /\ req[r].kind = "stream" /\ req[r].state = "Completed"
        /\ Len(req[r].emitted) = 2
        /\ req[r].emitted[1] # req[r].emitted[2]
        /\ chat_memory[req[r].memory] # <<>>

\* C5: when the external stream raises after k fragments, the step emits one
\* more fragment, the error text, which carries the error detail; it appends
\* the input and that error text alone; the k fragments stay emitted; and a
\* failed streaming turn emits nothing more.
C5_StreamErrorFragment ==
    [][\A r \in Reqs :
         /\ (req[r].kind = "stream" /\ req[r].state = "AwaitingModel"
                 /\ req'[r].state = "Failed")
            => LET k == Len(req[r].emitted)
                   error_text == req'[r].emitted[k + 1]
               IN  /\ Len(req'[r].emitted) = k + 1
                   /\ SubSeq(req'[r].emitted, 1, k) = req[r].emitted
                   /\ Contains(error_text, req'[r].error)
                   /\ req'[r].error \in ErrorDetails
                   /\ AppendsPair(r, req[r].message, error_text)
         /\ (req[r].kind = "stream" /\ req[r].state = "Failed")
            => /\ req'[r].emitted = req[r].emitted
               /\ req'[r].state = "Failed"
               /\ req'[r].pc \in {"erryield", "done", "dropped"}]_vars

\* A streaming turn has failed after two fragments and has ended.
C5_Witness ==
    \E r \in Reqs :
        /\ req[r].kind = "stream" /\ req[r].state = "Failed"
        /\ req[r].pc = "done"
        /\ Len(req[r].emitted) = 3
        /\ chat_memory[req[r].memory] # <<>>

\* The transcript the turn holds contains the turn's human message followed
\* by an assistant message (the messages of different turns differ).
TurnSaved(r) ==
    LET messages == chat_memory[req[r].memory]
    IN  \E i \in 1..(Len(messages) - 1) :
            /\ messages[i] = HumanMessage(req[r].message)
            /\ messages[i + 1].cls = "AIMessage"

\* C6 as stated: a streaming turn whose client dropped the connection has
\* its human message and its assistant message in the transcript once its
\* generator has been closed.
C6_DroppedTurnSaved ==
    \A r \in Reqs : req[r].pc = "dropped" => TurnSaved(r)

\* The records of a response stream that are not final.
NonFinal(sse) == SelectSeq(sse, LAMBDA record : ~record.is_complete)

\* The records of a response stream that are final.
Final(sse) == SelectSeq(sse, LAMBDA record : record.is_complete)

\* One is_complete:false record per fragment the orchestrator produced, in
\* production order.
OneRecordPerFragment(r) ==
    /\ Len(NonFinal(req[r].sse)) = Len(req[r].emitted)
    /\ \A i \in 1..Len(req[r].emitted) :
           /\ NonFinal(req[r].sse)[i].content = req[r].emitted[i]
           /\ req[r].sse[i] = NonFinal(req[r].sse)[i]

\* The response stream of turn r has ended: the response generator returned.
StreamOver(r) == req[r].kind = "stream" /\ req[r].pc \in {"done", "escaped"}

\* The stream ends with its only is_complete:true record.
EndsWithOneFinal(r) ==
    /\ Len(Final(req[r].sse)) = 1
    /\ req[r].sse # <<>>
    /\ req[r].sse[Len(req[r].sse)].is_complete

\* C7 as stated: every response stream that has ended is one is_complete:false
\* record per fragment, in order, then exactly one is_complete:true record,
\* the last, carrying sources ["resume_data"], whatever the outcome.
C7_FinalCarriesSources ==
    \A r \in Reqs :
        StreamOver(r) =>
            /\ OneRecordPerFragment(r)
            /\ EndsWithOneFinal(r)
            /\ req[r].sse[Len(req[r].sse)].sources = Sources(<<"resume_data">>)

\* C7 amended: every response stream is one is_complete:false record per
\* fragment, in order; one that has ended ends with exactly one
\* is_complete:true record, which carries sources ["resume_data"] and no
\* content when the turn succeeded or the orchestrator handled the failure,
\* and carries the error text and no sources when an exception escaped the
\* orchestrator.
C7_FinalRecord ==
    \A r \in Reqs :
        /\ req[r].kind = "stream" => OneRecordPerFragment(r)
        /\ req[r].kind = "stream" /\ ~StreamOver(r) => Final(req[r].sse) = <<>>
        /\ StreamOver(r) =>
            /\ EndsWithOneFinal(r)
            /\ LET last == req[r].sse[Len(req[r].sse)]
               IN  IF req[r].pc = "escaped"
                   THEN /\ last.sources = NoSources
                        /\ Contains(last.content, req[r].error)
                        /\ req[r].error \in ErrorDetails
                   ELSE /\ last.sources = Sources(<<"resume_data">>)
                        /\ last.content = <<>>
                        /\ req[r].state \in {"Completed", "Failed"}

\* A response stream has ended with an escaped exception after two fragments.
C7_Witness ==
    \E r \in Reqs :
        /\ req[r].pc = "escaped"
        /\ Len(req[r].sse) = 3
        /\ req[r].sse[3].is_complete

\* The memory objects some session or some turn refers to.
ObjectsInUse ==
    ({memory_store[s] : s \in Sessions} \cup {req[r].memory : r \in Reqs})
        \ {None}

\* C8: the get_or_create of a turn's entry registers a new, empty transcript
\* for an id the store does not hold, and otherwise returns the very object
\* the store holds; it changes no transcript's content and no other
\* session's entry.
C8_GetOrCreateIdempotent ==
    [][\A r \in Reqs, s \in Sessions :
         (req[r].pc = "idle" /\ req'[r].pc # "idle" /\ req'[r].session_id = s)
         => /\ req'[r].memory = memory_store'[s]
            /\ IF memory_store[s] = None
               THEN /\ memory_store'[s] \in ObjIds \ ObjectsInUse
                    /\ chat_memory'[memory_store'[s]] = <<>>
               ELSE memory_store'[s] = memory_store[s]
            /\ chat_memory' = chat_memory
            /\ \A u \in Sessions \ {s} : memory_store'[u] = memory_store[u]]_vars

\* Two turns of one session hold the same memory object, which the store
\* still holds, while another session has an entry of its own.
C8_Witness ==
    \E r, q \in Reqs :
        /\ r # q
        /\ req[r].pc # "idle" /\ req[q].pc # "idle"
        /\ req[r].session_id = req[q].session_id
        /\ req[r].memory = req[q].memory
        /\ memory_store[req[r].session_id] = req[r].memory

\* C9: a clear removes the session's entry, answers with the confirmation
\* whether or not the session was present, and leaves the entries and the
\* transcripts of all other sessions unchanged.
C9_ClearFrame ==
    [][\A s \in Sessions :
         response' = ClearResponse(s)
         => /\ memory_store'[s] = None
            /\ response'.status = 200
            /\ response'.body.session_id = s
            /\ \A u \in Sessions \ {s} :
                   /\ memory_store'[u] = memory_store[u]
                   /\ get_session_history(memory_store', chat_memory', u)
                          = get_session_history(memory_store, chat_memory, u)
            /\ chat_memory' = chat_memory]_vars

\* A session was cleared while another session holds a transcript.
C9_Witness ==
    \E s, u \in Sessions :
        /\ s # u
        /\ response = ClearResponse(s)
        /\ memory_store[s] = None
        /\ \E r \in Reqs : req[r].session_id = s /\ req[r].state = "Completed"
        /\ Len(Snapshot(u)) = 2

\* C10: a snapshot changes neither the store nor any transcript; it is empty
\* for an absent session and creates no entry for it; for a present session
\* it lists the messages in append order, each typed human or ai; and the
\* endpoint's total_messages is the number of messages returned.
C10_SnapshotFrame ==
    [][\A s \in Sessions :
         (response'.op = "history" /\ response'.body.session_id = s)
         => LET listed == response'.body.messages
                messages == IF memory_store[s] = None THEN <<>>
                            ELSE chat_memory[memory_store[s]]
            IN  /\ memory_store' = memory_store
                /\ chat_memory' = chat_memory
                /\ response'.body.total_messages = Len(listed)
                /\ Len(listed) = Len(messages)
                /\ \A i \in 1..Len(messages) :
                       /\ listed[i].content = messages[i].content
                       /\ listed[i].type \in {"human", "ai"}
                       /\ listed[i].type = "human"
                              <=> messages[i] = HumanMessage(messages[i].content)]_vars

\* A snapshot of a session with one exchange was returned, and the other
\* session, which was asked for before, is still absent.
C10_Witness ==
    \E s, u \in Sessions :
        /\ response.op = "history" /\ response.body.session_id = s
        /\ response.body.total_messages = 2
        /\ response.body.messages[1].type = "human"
        /\ response.body.messages[2].type = "ai"
        /\ memory_store[u] = None

\* ------------------------------------------------------------------- C17
\* The step just taken was a call of the named tool that returned a value.
ToolReturned(tool) ==
    /\ response.op = "tool" /\ response.tool = tool /\ response.result.ok

\* The filter of the call just taken is not blank: it has a character that
\* is not whitespace.
NonBlankArg ==
    /\ response.arg # Absent
    /\ \E i \in 1..Len(ValueOf(response.arg)) :
          ValueOf(response.arg)[i] \notin Whitespace

\* The filter is a substring of one of the texts, letter case ignored.
MatchesAny(texts, filter) ==
    \E i \in 1..Len(texts) : Contains(lower(texts[i]), lower(filter))

RECURSIVE Matching(_, _, _)
\* Of the renderings of the entries of a list, those of the entries whose
\* matched fields (fields[i] for entry i) contain the filter, in source order.
Matching(renderings, fields, filter) ==
    IF renderings = <<>> THEN <<>>
    ELSE (IF MatchesAny(Head(fields), filter) THEN <<Head(renderings)>>
          ELSE <<>>)
         \o Matching(Tail(renderings), Tail(fields), filter)

\* The rendering the filter-with-fallback policy prescribes: the matching
\* entries when there is one, else what the accessor gives with no filter.
Prescribed(renderings, fields, sep, filter, unfiltered) ==
    LET matching == Matching(renderings, fields, filter)
    IN  IF matching # <<>> THEN JoinWith(sep, matching) ELSE unfiltered

EducationFields(edu) == <<edu.institution, edu.degree, edu.field>>
ExperienceFields(exp) ==
    <<exp.company, exp.position>> \o ListOf(exp.technologies)
SkillsFields(item) == <<item[1]>>
ProjectFields(project) ==
    <<project.name, project.description>> \o project.technologies

\* C17: a call of get_education, get_experience, get_skills or get_projects
\* with a non-blank filter renders exactly the entries whose matched fields
\* contain the filter as a case-insensitive substring, in source order, when
\* there is such an entry, and gives the result of the call with no filter
\* when there is none.
C17_FilterWithFallback ==
    LET d == resume_file.data
        filter == ValueOf(response.arg)
        result == response.result.value
    IN  /\ ToolReturned("get_education") /\ NonBlankArg =>
              result = Prescribed(
                  [i \in 1..Len(d.education) |-> RenderEducation(d.education[i])],
                  [i \in 1..Len(d.education) |-> EducationFields(d.education[i])],
                  NL \o NL, filter, get_education(resume_file, Absent).value)
        /\ ToolReturned("get_experience") /\ NonBlankArg =>
              result = Prescribed(
                  [i \in 1..Len(d.experience) |->
                      RenderExperience(d.experience[i])],
                  [i \in 1..Len(d.experience) |->
                      ExperienceFields(d.experience[i])],
                  NL \o NL, filter, get_experience(resume_file, Absent).value)
        /\ ToolReturned("get_skills") /\ NonBlankArg =>
              result = Prescribed(
                  [i \in 1..Len(d.skills) |-> RenderSkills(d.skills[i])],
                  [i \in 1..Len(d.skills) |-> SkillsFields(d.skills[i])],
                  NL, filter, get_skills(resume_file, Absent).value)
        /\ ToolReturned("get_projects") /\ NonBlankArg =>
              result = Prescribed(
                  [i \in 1..Len(d.projects) |-> RenderProject(d.projects[i])],
                  [i \in 1..Len(d.projects) |-> ProjectFields(d.projects[i])],
                  NL \o NL, filter, get_projects(resume_file, Absent).value)

\* get_skills("Pro") on a document with the categories "Prog" and "Web" has
\* returned the line of "Prog" only.
C17_Witness ==
    /\ ToolReturned("get_skills")
    /\ response.arg = Some(<<"P", "r", "o">>)
    /\ Len(resume_file.data.skills) = 2
    /\ response.result.value = RenderSkills(resume_file.data.skills[1])
    /\ response.result.value # get_skills(resume_file, Absent).value

\* get_education("zz") on a document with two entries has returned what
\* get_education() returns: both entries.
C17_WitnessFallback ==
    /\ ToolReturned("get_education")
    /\ response.arg = Some(<<"z", "z">>)
    /\ Len(resume_file.data.education) = 2
    /\ response.result.value = get_education(resume_file, Absent).value
    /\ response.result.value # <<>>

\* get_education("Ét") on a document with the institutions "MIT" and "ÉTH"
\* has returned the entry of "ÉTH" only.
C17_WitnessAccent ==
    /\ ToolReturned("get_education")
    /\ response.arg = Some(<<"É", "t">>)
    /\ resume_file.data.education = <<Edu1, Edu3>>
    /\ response.result.value = RenderEducation(Edu3)

\* ------------------------------------------------------------------- C18
\* The fields of a section, one text per str field and one per element of a
\* list field.
OptField(opt) == IF opt = Absent THEN <<>> ELSE <<ValueOf(opt)>>

RECURSIVE FieldsOfAll(_)
\* The fields of all entries of a section: entries holds the fields of each.
FieldsOfAll(entries) ==
    IF entries = <<>> THEN <<>> ELSE Head(entries) \o FieldsOfAll(Tail(entries))

PersonalInfoSectionFields(d) ==
    PersonalInfoValues(d.personal_info) \o OptField(d.summary)

EducationSectionFields(d) ==
    FieldsOfAll([i \in 1..Len(d.education) |->
        LET edu == d.education[i]
        IN  <<edu.institution, edu.degree, edu.field, edu.graduation_date>>
            \o ListOf(edu.achievements)])

ExperienceSectionFields(d) ==
    FieldsOfAll([i \in 1..Len(d.experience) |->
        LET exp == d.experience[i]
        IN  <<exp.company, exp.position, exp.start_date>>
            \o OptField(exp.end_date) \o exp.description
            \o ListOf(exp.technologies) \o OptField(exp.location)])

SkillsSectionFields(d) ==
    FieldsOfAll([i \in 1..Len(d.skills) |->
        <<d.skills[i][1]>> \o d.skills[i][2]])

ProjectsSectionFields(d) ==
    FieldsOfAll([i \in 1..Len(d.projects) |->
        LET project == d.projects[i]
        IN  <<project.name, project.description>> \o project.technologies
            \o OptField(project.url) \o OptField(project.github_url)
            \o OptField(project.start_date) \o OptField(project.end_date)])

\* Header and unfiltered rendering of a section, when one of its fields
\* contains the keyword.
SectionIfMatch(fields, keyword, header, rendering) ==
    IF MatchesAny(fields, keyword) THEN <<header, rendering>> ELSE <<>>

\* What the search is to output: the sections with a matching field, each
\* once, in the order personal info, education, experience, skills, projects.
SectionsWithMatchingField(keyword) ==
    LET d == resume_file.data
    IN  SectionIfMatch(PersonalInfoSectionFields(d), keyword,
                       <<"PERSONAL INFO:">>,
                       get_personal_info(resume_file, Absent).value)
        \o SectionIfMatch(EducationSectionFields(d), keyword,
                          <<"EDUCATION:">>,
                          get_education(resume_file, Absent).value)
        \o SectionIfMatch(ExperienceSectionFields(d), keyword,
                          <<"EXPERIENCE:">>,
                          get_experience(resume_file, Absent).value)
        \o SectionIfMatch(SkillsSectionFields(d), keyword, <<"SKILLS:">>,
                          get_skills(resume_file, Absent).value)
        \o SectionIfMatch(ProjectsSectionFields(d), keyword, <<"PROJECTS:">>,
                          get_projects(resume_file, Absent).value)

\* C18: search_resume with a non-blank keyword outputs, for every section
\* that has a field containing the keyword (case-insensitive substring), the
\* header of the section followed by its unfiltered rendering, once, and for
\* no other section, in the order personal info, education, experience,
\* skills, projects.
C18_SearchSections ==
    ToolReturned("search_resume") /\ NonBlankArg =>
        LET sections == SectionsWithMatchingField(ValueOf(response.arg))
        IN  IF sections = <<>>
            THEN response.result.value = NotFoundMessage(ValueOf(response.arg))
            ELSE response.result.value = JoinWith(NL \o NL, sections)

\* ------------------------------------------------------------------- C19
\* C19: search_resume with an empty or whitespace-only keyword returns the
\* guidance string, as a value; with a non-blank keyword that no field of any
\* section contains it returns the not-found message naming the keyword.
C19_SearchMessages ==
    response.op = "tool" /\ response.tool = "search_resume" =>
        LET keyword == ValueOf(response.arg)
        IN  /\ ~NonBlankArg => response.result = Returned(GuidanceMessage)
            /\ /\ NonBlankArg
               /\ response.result.ok
               /\ SectionsWithMatchingField(keyword) = <<>>
               => response.result.value = NotFoundMessage(keyword)

\* ------------------------------------------------------------------- C20
\* C20: get_personal_info gives, for every filter (absent, empty or any
\* string), the result it gives with no filter on the same file.
C20_PersonalInfoIgnoresFilter ==
    response.op = "tool" /\ response.tool = "get_personal_info" =>
        response.result = get_personal_info(resume_file, Absent)

\* get_personal_info("go") on a document whose summary alone contains "go"
\* has returned the name, the email and the summary.
C20_Witness ==
    /\ ToolReturned("get_personal_info")
    /\ response.arg = Some(<<"g", "o">>)
    /\ resume_file.data.summary = Some(<<"g", "o", " ", "d", "e", "v">>)
    /\ Contains(response.result.value, <<"Name: ">>)
    /\ Contains(response.result.value, <<"Email: ">>)
    /\ Contains(response.result.value, <<"g", "o", " ", "d", "e", "v">>)

\* ------------------------------------------------------------------- C11
\* The status of a response, 0 when the step sent none.
StatusOf(sent) == IF "status" \in DOMAIN sent THEN sent.status ELSE 0

\* The step is the handling of a POST of this body by either chat endpoint,
\* as request r: the next request the service takes.
Posted(r, body, uuid) ==
    /\ CanStart(r)
    /\ ChatEndpoint(r, body, uuid) \/ StreamChatEndpoint(r, body, uuid)

\* The step left the sessions, the transcripts and the turns as they were.
OrchestratorUntouched ==
    UNCHANGED <<memory_store, chat_memory, nextObj, req, doneSeq>>

\* C11: a POST to /api/chat or /api/chat/stream whose message is missing (the
\* key is missing, its value no string, or the body no JSON) is answered
\* with a client error (400 or 422) and a POST whose message is
\* present but empty with 400; neither reaches the orchestrator: no session is
\* created, no transcript changes and no turn starts.
C11_MessageRequired ==
    [][\A r \in {q \in Reqs : CanStart(q)}, uuid \in Uuids :
          \A body \in BodiesOf(r) :
             Posted(r, body, uuid) =>
                /\ (~body.json \/ body.message.type # "str") =>
                      /\ StatusOf(response') \in {400, 422}
                      /\ OrchestratorUntouched
                /\ (body.json /\ body.message = [type |-> "str",
                                                 value |-> <<>>]) =>
                      /\ StatusOf(response') = 400
                      /\ OrchestratorUntouched]_vars

\* A POST without message was answered 422 by /api/chat/stream while a turn
\* of an earlier request was in flight.
C11_Witness ==
    /\ response.op = "stream"
    /\ StatusOf(response) = 422
    /\ req[1].pc = "awaiting"
    /\ req[2].pc = "idle"

\* A POST with an empty message was answered 400 by /api/chat.
C11_WitnessEmpty ==
    /\ response.op = "chat"
    /\ StatusOf(response) = 400

\* ------------------------------------------------------------------- C12
\* The endpoint accepted request r and chose its session id.
Accepted(r) == req[r].pc # "idle"

\* The session id the endpoint passed to the orchestrator for request r.
PassedId(r) == req[r].session_id

\* The response just sent is the 200 answer to request r.
Answers(r) ==
    /\ response.op \in {"chat", "stream"}
    /\ StatusOf(response) = 200
    /\ response.req = r

\* The session id a chat answer carries: in its body for /api/chat, in its
\* X-Session-ID header for /api/chat/stream.
EchoedId(sent) ==
    IF sent.op = "chat" THEN sent.body.session_id
    ELSE sent.headers.X_Session_ID

\* Request r was given a generated id: non-empty, and not the id generated
\* for any other request.
GeneratedFor(r) ==
    /\ PassedId(r) \in Uuids
    /\ PassedId(r) # ""
    /\ \A q \in Reqs \ {r} :
          (Accepted(q) /\ req[q].body.session_id = Absent)
             => PassedId(q) # PassedId(r)

\* C12 as stated: a request that omits session_id is given a generated id,
\* fresh, non-empty and distinct from every other generated id; a request
\* that supplies a session_id, whatever it is, has exactly that id passed to
\* the orchestrator; the answer carries the id passed.
C12_AsStated ==
    \A r \in Reqs :
       Accepted(r) =>
          /\ req[r].body.session_id = Absent => GeneratedFor(r)
          /\ req[r].body.session_id # Absent =>
                PassedId(r) = ValueOf(req[r].body.session_id)
          /\ Answers(r) => EchoedId(response) = PassedId(r)

\* The step is the one in which an endpoint accepts the POST of this body as
\* request r, uuid being what uuid4 returns if the endpoint calls it.
AcceptedAs(r, body, uuid) ==
    /\ req[r].pc = "idle"
    /\ req'[r].pc # "idle"
    /\ Posted(r, body, uuid)

\* The body supplies a session id that is not empty.
SuppliesId(body) ==
    body.session_id.type = "str" /\ body.session_id.value # ""

\* C12 (amended): a request that omits session_id (or sends null or an empty
\* one) is given the id uuid4 generates for it, which is not empty: so the
\* ids of two such requests differ whenever the two values of uuid4 differ,
\* and no check of the code makes them differ otherwise; a request that
\* supplies a non-empty session_id is given exactly that id.  The id a
\* request was given never changes, it is the key under which the
\* orchestrator fetches or creates the memory of the turn, and the answer
\* carries it (body session_id for /api/chat, X-Session-ID header for
\* /api/chat/stream).
C12_SessionId ==
    [][/\ \A r \in {q \in Reqs : req[q].pc = "idle" /\ req'[q].pc # "idle"},
            uuid \in Uuids : \A body \in BodiesOf(r) :
             AcceptedAs(r, body, uuid) =>
                /\ ~SuppliesId(body) =>
                      /\ req'[r].session_id = uuid
                      /\ uuid # ""
                /\ SuppliesId(body) =>
                      req'[r].session_id = body.session_id.value
       /\ \A r \in Reqs :
             /\ Accepted(r) => req'[r].session_id = req[r].session_id
             /\ (req[r].pc # "awaiting" /\ req'[r].pc = "awaiting") =>
                   /\ memory_store'[req'[r].session_id] # None
                   /\ req'[r].memory = memory_store'[req'[r].session_id]
             /\ ( /\ response'.op \in {"chat", "stream"}
                  /\ StatusOf(response') = 200
                  /\ response'.req = r ) =>
                   EchoedId(response') = req'[r].session_id]_vars

\* Two requests omitted session_id, uuid4 returned different values for
\* them, and /api/chat answered the second with its own id.
C12_Witness ==
    /\ Accepted(1) /\ req[1].body.session_id = Absent
    /\ Accepted(2) /\ req[2].body.session_id = Absent
    /\ PassedId(1) # PassedId(2)
    /\ Answers(2) /\ response.op = "chat"
    /\ EchoedId(response) = PassedId(2)

\* A request supplied the id "s1", and /api/chat/stream started its answer.
C12_WitnessSupplied ==
    \E r \in Reqs :
       /\ Accepted(r) /\ req[r].body.session_id = Some("s1")
       /\ Answers(r) /\ response.op = "stream"
       /\ EchoedId(response) = "s1"

\* uuid4 returned the same value for two requests, which share a session.
C12_WitnessSameValue ==
    /\ Accepted(1) /\ req[1].body.session_id = Absent
    /\ Accepted(2) /\ req[2].body.session_id = Absent
    /\ PassedId(1) = PassedId(2)

\* ------------------------------------------------------------------- C13
\* The step is the one in which the orchestrator's chat call of request r
\* raises to /api/chat.
ChatCallRaises(r) ==
    /\ req[r].kind = "chat"
    /\ req[r].pc = "awaiting"
    /\ req'[r].pc = "escaped"

\* text begins with the texts of prefix.
StartsWith(text, prefix) ==
    /\ Len(text) >= Len(prefix)
    /\ SubSeq(text, 1, Len(prefix)) = prefix

\* C13 as stated: when the orchestrator's chat call raises, /api/chat answers
\* 500 with a body of the fields error, message and type.
C13_AsStated ==
    [][\A r \in Reqs :
          ChatCallRaises(r) =>
             /\ StatusOf(response') = 500
             /\ DOMAIN response'.body = {"error", "message", "type"}]_vars

\* C13 (amended): when the orchestrator's chat call raises, /api/chat answers
\* 500 with a body of the single field detail, whose text begins with
\* "Chat processing failed".
C13_ChatFailed ==
    [][\A r \in Reqs :
          ChatCallRaises(r) =>
             /\ StatusOf(response') = 500
             /\ response'.op = "chat" /\ response'.req = r
             /\ DOMAIN response'.body = {"detail"}
             /\ StartsWith(response'.body.detail,
                           <<"Chat processing failed: ">>)]_vars

\* The chat call of a request raised and /api/chat answered 500.
C13_Witness ==
    \E r \in Reqs :
       /\ req[r].kind = "chat" /\ req[r].pc = "escaped"
       /\ response.op = "chat" /\ StatusOf(response) = 500
       /\ response.req = r

\* ------------------------------------------------------------------- C14
\* The step is the one in which the data error of an accessor ends the
\* external call of the turn of request r.
DataErrorRaised(r) ==
    /\ req[r].pc = "awaiting"
    /\ req'[r].pc # "awaiting"
    /\ req'[r].error \in DataErrors(resume_file)

\* The beginning of the apology of a chat turn.
Apology ==
    <<"I apologize, but I encountered an error processing your question: ">>

\* C14: a data error (the resume file missing or malformed) raised by an
\* accessor during a turn is never answered 500: the turn goes to Failed, and
\* a /api/chat turn is answered 200 with the apology, which the step appends
\* to the transcript as the assistant message after the user's message.
C14_DataErrorInBand ==
    [][\A r \in Reqs :
          DataErrorRaised(r) =>
             /\ req'[r].state = "Failed"
             /\ StatusOf(response') # 500
             /\ req[r].kind = "chat" =>
                   /\ response'.op = "chat" /\ response'.req = r
                   /\ StatusOf(response') = 200
                   /\ StartsWith(response'.body.response, Apology)
                   /\ LET messages == chat_memory'[req[r].memory]
                      IN  /\ Len(messages) = Len(chat_memory[req[r].memory]) + 2
                          /\ messages[Len(messages)] =
                                AIMessage(response'.body.response)]_vars

\* The resume file is not JSON, and the turn of a /api/chat request that ran
\* into it was answered 200 with the apology, which holds the error.
C14_Witness ==
    \E r \in Reqs :
       /\ resume_file = MalformedFile
       /\ req[r].kind = "chat" /\ req[r].state = "Failed"
       /\ req[r].error \in DataErrors(resume_file)
       /\ response.op = "chat" /\ response.req = r
       /\ StatusOf(response) = 200
       /\ StartsWith(response.body.response, Apology)
       /\ Contains(response.body.response, JSONDecodeError)

\* The resume file is missing, and the turn of a /api/chat request that ran
\* into it was answered 200 with the apology.
C14_WitnessMissing ==
    \E r \in Reqs :
       /\ resume_file = MissingFile
       /\ req[r].kind = "chat" /\ req[r].state = "Failed"
       /\ req[r].error \in DataErrors(resume_file)
       /\ response.op = "chat" /\ response.req = r
       /\ StatusOf(response) = 200
       /\ StartsWith(response.body.response, Apology)

\* ------------------------------------------------------------------- C15
\* The text holds the detail of an error.
HoldsDetail(text) == \E e \in ErrorDetails : Contains(text, e)

\* The texts of the body of the error response just sent.
ErrorBodyTexts ==
    IF StatusOf(response) = 500
    THEN {response.body[f] : f \in DOMAIN response.body \ {"type"}}
    ELSE {}

\* The error records sent in the body of a stream whose iteration failed.
ErrorChunkTexts ==
    {req[r].sse[Len(req[r].sse)].content :
        r \in {q \in Reqs : req[q].kind = "stream" /\ req[q].pc = "escaped"}}

\* C15: with the debug flag off, the body sent for an unexpected error in the
\* chat, stream, history and clear endpoints holds a generic message only:
\* the detail of the error is in no 500 body and in no error record of a
\* stream.
C15_GenericUnlessDebug ==
    ~Debug(environ) =>
       \A text \in ErrorBodyTexts \cup ErrorChunkTexts : ~HoldsDetail(text)

\* ------------------------------------------------------------------- C16
\* The LLM API credential is absent (or empty) from os.environ and from the
\* .env file that stands in for it.
CredentialAbsent ==
    LET key == IF environ.OPENAI_API_KEY # Absent THEN environ.OPENAI_API_KEY
               ELSE environ.ENV_FILE_KEY
    IN  key \in {Absent, Some(<<>>)}

\* A request was served: a turn was started or a response was sent.
Served == (\E r \in Reqs : req[r].pc # "idle") \/ response # NoResponse

\* C16: without the LLM API credential the construction of the agent and the
\* startup part of lifespan raise, the startup never completes and no request
\* is served; and a request is served only after lifespan has initialised
\* the agent.
C16_NoCredentialNoService ==
    /\ CredentialAbsent =>
          /\ ~get_resume_agent(None, environ).ok
          /\ ~lifespan(None, environ).ok
          /\ startup # "complete"
          /\ ~Served
    /\ Served => (startup = "complete" /\ agent_instance = TheAgent)

\* A process without the credential has failed to start.
C16_Witness ==
    /\ CredentialAbsent
    /\ startup = "failed"
    /\ agent_instance = None

\* A process whose credential is in the .env file only serves a request.
C16_WitnessServing ==
    /\ environ.ENV_FILE_KEY = Some(<<"sk-test">>)
    /\ startup = "complete"
    /\ Served

\* ------------------------------------------------------------------- C21
\* What the tool gives on the document data.
OfDocument(tool, arg, data) ==
    CASE tool = "get_personal_info" -> PersonalInfoOf(data, arg)
      [] tool = "get_education" -> EducationOf(data, arg)
      [] tool = "get_experience" -> ExperienceOf(data, arg)
      [] tool = "get_skills" -> SkillsOf(data, arg)
      [] tool = "get_projects" -> ProjectsOf(data, arg)
      [] tool = "search_resume" -> SearchOf(data, ValueOf(arg))

\* The call answers without reading the file: search_resume of a blank
\* keyword.
AnswersUnread(sent) ==
    sent.tool = "search_resume" /\ strip(ValueOf(sent.arg)) = <<>>

\* The result of the call is the one the content of the file gives, and of no
\* other content: the failure of a file that does not load, the rendering of
\* the document the file holds.
ReflectsFile(sent, file) ==
    \/ AnswersUnread(sent)
    \/ file.kind # "json" /\ ~sent.result.ok
    \/ /\ file.kind = "json"
       /\ sent.result = Returned(OfDocument(sent.tool, sent.arg, file.data))

\* The accessor search_resume awaits for a section.
SectionTool(k) ==
    CASE k = 1 -> "get_personal_info"
      [] k = 2 -> "get_education"
      [] k = 3 -> "get_experience"
      [] k = 4 -> "get_skills"
      [] k = 5 -> "get_projects"

\* The text ends with the suffix.
EndsWith(text, suffix) ==
    /\ Len(suffix) <= Len(text)
    /\ SubSeq(text, Len(text) - Len(suffix) + 1, Len(text)) = suffix

\* A read of a search_resume call in progress gives what the file holds at
\* the read: the first read keeps the document of the file, and the accessor
\* awaited for a section fails when the file does not load and otherwise
\* contributes the rendering of the document the file holds now.
SearchReadsFile ==
    /\ (search.section = 0 /\ search'.section # 0) =>
          /\ resume_file.kind = "json"
          /\ search'.resume_data = resume_file.data
    /\ (search.section # 0 /\ search' # search) =>
          IF resume_file.kind # "json"
          THEN /\ response'.op = "tool"
               /\ ~response'.result.ok
               /\ search'.section = 0
          ELSE LET rendering == OfDocument(SectionTool(search.section),
                                           Absent, resume_file.data)
               IN  IF search'.section # 0
                   THEN search'.results[Len(search.results) + 1] = rendering
                   ELSE /\ response'.result.ok
                        /\ EndsWith(response'.result.value, rendering)

\* C21: an accessor call reads the file as it is at the call, whatever the
\* file held at earlier calls, and leaves the file as it is; search_resume,
\* which loads the file and then awaits one accessor for every section it
\* found, gets from each of these reads what the file holds at that read.
C21_ReadAfresh ==
    [][/\ ( /\ response' # response /\ response'.op = "tool"
            /\ search.section = 0 ) =>
             ReflectsFile(response', resume_file)
       /\ SearchReadsFile
       /\ (response' # response \/ search' # search) =>
             resume_file' = resume_file]_vars

\* The file, which held the sample document at the start, was edited into the
\* second document and the next get_education gave the second document's
\* education.
C21_Witness ==
    /\ resume_file = JsonFile(EditedResume)
    /\ response = ToolResponse("get_education", Absent,
                               Returned(EducationOf(EditedResume, Absent)))
    /\ EducationOf(EditedResume, Absent) # EducationOf(SampleResume, Absent)

\* search_resume loaded the sample document, the file was edited into the
\* second document before the accessors of the sections were awaited, and
\* the result is the one of neither document alone.
C21_WitnessSearch ==
    /\ resume_file = JsonFile(EditedResume)
    /\ response.op = "tool" /\ response.tool = "search_resume"
    /\ response.arg = Some(<<"g", "o">>)
    /\ response.result.ok
    /\ response.result.value # SearchOf(SampleResume, <<"g", "o">>)
    /\ response.result.value # SearchOf(EditedResume, <<"g", "o">>)
    /\ EndsWith(response.result.value, ProjectsOf(EditedResume, Absent))

\* ------------------------------------------------------------------- C22
\* The result is the failure the load raises, of the given class and with a
\* text that begins as given.
Fails(result, type, prefix) ==
    /\ ~result.ok
    /\ result.type = type
    /\ StartsWith(result.detail, prefix)

\* C22: a call of an accessor that loads the file raises FileNotFoundError
\* ("Resume data file not found") to its caller when the file is missing and
\* ValueError ("Invalid JSON") when the file is not JSON; it returns no text,
\* and the two failures differ.
C22_LoadFailures ==
    (response.op = "tool" /\ ~AnswersUnread(response)) =>
       /\ resume_file = MissingFile =>
             Fails(response.result, "FileNotFoundError",
                   <<"Resume data file not found at ">>)
       /\ resume_file = MalformedFile =>
             Fails(response.result, "ValueError",
                   <<"Invalid JSON in resume data file: ">>)
       /\ load_resume_data(MissingFile) # load_resume_data(MalformedFile)

\* get_experience was called with the file missing.
C22_Witness ==
    /\ resume_file = MissingFile
    /\ response.op = "tool" /\ response.tool = "get_experience"
    /\ ~response.result.ok

\* search_resume was called with a keyword and the file not JSON.
C22_WitnessMalformed ==
    /\ resume_file = MalformedFile
    /\ response.op = "tool" /\ response.tool = "search_resume"
    /\ ~AnswersUnread(response)
    /\ ~response.result.ok

\* search_resume was called with a carriage return for a keyword and the
\* file missing: it returned its guidance and did not load the file.
C22_WitnessBlank ==
    /\ resume_file = MissingFile
    /\ response.op = "tool" /\ response.tool = "search_resume"
    /\ response.arg = Some(<<"\r">>)
    /\ response.result = Returned(GuidanceMessage)

\* ------------------------------------------------------------------- C23
\* The step ends the turn of request r after the executor has used up its
\* rounds.
EndsAtCeiling(r) ==
    /\ req[r].kind = "chat"
    /\ req[r].state = "AwaitingModel"
    /\ req[r].rounds = max_iterations
    /\ req'[r].state # "AwaitingModel"

\* C23, its part on the ceiling: a turn whose executor has used up its 3
\* rounds ends in Failed, the apology appended to the transcript and
\* returned.
C23_CeilingFails ==
    [][\A r \in Reqs :
          EndsAtCeiling(r) =>
             /\ req'[r].state = "Failed"
             /\ StartsWith(response'.body.response, Apology)
             /\ AppendsPair(r, req[r].message, response'.body.response)]_vars

\* ------------------------------------------------------------------- C24
\* The turns started so far use pairwise different session ids.
PairwiseDifferent ==
    \A r, q \in Reqs :
       (r # q /\ req[r].pc # "idle" /\ req[q].pc # "idle")
          => req[r].session_id # req[q].session_id

\* The transcript the session of turn r has when the turn runs alone: empty
\* until the turn has saved, then its one pair.
Alone(r) ==
    IF req[r].state \in {"Completed", "Failed"} THEN Exchanges(<<r>>)
    ELSE <<>>

\* C24: while the turns (chat or stream, in any interleaving) use pairwise
\* different session ids, the transcript of each turn's session, unless
\* cleared since, is what the turn run alone gives: no turn has appended to
\* the transcript of another session.
C24_SessionsIsolated ==
    PairwiseDifferent =>
       \A r \in Reqs :
          TurnOf(r, req[r].session_id) =>
             Snapshot(req[r].session_id) = Alone(r)

\* Two turns of different sessions overlapped (the second completed first)
\* and both have saved.
C24_Witness ==
    /\ PairwiseDifferent
    /\ doneSeq = <<2, 1>>
    /\ \A r \in {1, 2} :
          /\ TurnOf(r, req[r].session_id)
          /\ Len(Snapshot(req[r].session_id)) = 2

\* ------------------------------------------------------------------- C25
\* The sequence begins with the whole of prefix.
IsPrefix(prefix, seq) ==
    /\ Len(prefix) <= Len(seq)
    /\ SubSeq(seq, 1, Len(prefix)) = prefix

\* C25: a step that is not a clear of session s leaves the snapshot of s a
\* prefix of the snapshot after it (nothing reordered, removed or merged, the
\* length not smaller) and leaves the entry the store holds for s in place.
C25_AppendOnly ==
    [][\A s \in Sessions :
          ~ClearChatHistory(s) =>
             /\ IsPrefix(Snapshot(s), Snapshot(s)')
             /\ memory_store[s] # None => memory_store'[s] = memory_store[s]]_vars

\* A snapshot of a session was taken after two turns of it have saved.
C25_Witness ==
    \E s \in Sessions :
       /\ Len(Snapshot(s)) = 4
       /\ response = HistoryResponse(s, Snapshot(s))
       /\ \A r \in Reqs : TurnOf(r, s)

\* ------------------------------------------------------------------- C26
\* C26: the process constructs one agent at most, every request is handled
\* by that one instance, and so by its one session table: two turns of one
\* session with no clear between them hold the same transcript object, and
\* what the earlier wrote is in the snapshot the later one's session gives.
C26_OneAgent ==
    /\ agent_instance \in {None, TheAgent}
    /\ \A r \in Reqs :
          req[r].pc # "idle" =>
             (req[r].agent = agent_instance /\ agent_instance = TheAgent)
    /\ \A s \in Sessions : \A r, q \in Reqs :
          (TurnOf(r, s) /\ TurnOf(q, s)) =>
             /\ req[r].memory = req[q].memory
             /\ (req[r].state = "Completed" =>
                    \E i \in 1..Len(Snapshot(s)) :
                       Snapshot(s)[i].content = req[r].answer)

\* Two requests of one session were handled by the agent the startup
\* constructed, and the answer of the first is in the snapshot of the session
\* while the second awaits the model.
C26_Witness ==
    \E s \in Sessions :
       /\ TurnOf(1, s) /\ TurnOf(2, s)
       /\ req[1].agent = TheAgent /\ req[2].agent = TheAgent
       /\ req[1].state = "Completed" /\ req[2].state = "AwaitingModel"
       /\ Len(Snapshot(s)) = 2

\* ------------------------------------------------------------------- C27
\* The messages are human/assistant pairs: an even number of them, the odd
\* places human, the even places assistant.
Alternates(messages) ==
    /\ Len(messages) % 2 = 0
    /\ \A i \in 1..Len(messages) :
          messages[i].cls = IF i % 2 = 1 THEN "HumanMessage" ELSE "AIMessage"

\* C27: in every state another request can observe (the states between the
\* steps, each step running from one suspension point to the next), every
\* transcript, in the store or detached from it, is a sequence of
\* human/assistant pairs.
C27_PairsOnly ==
    /\ \A o \in ObjIds : Alternates(chat_memory[o])
    /\ \A s \in Sessions :
          /\ Len(Snapshot(s)) % 2 = 0
          /\ \A i \in 1..Len(Snapshot(s)) :
                Snapshot(s)[i].type = IF i % 2 = 1 THEN "human" ELSE "ai"

\* Two turns of one session overlap: one has saved its pair while the other
\* is still waiting for the model.
C27_Witness ==
    \E s \in Sessions :
       /\ TurnOf(1, s) /\ TurnOf(2, s)
       /\ req[1].state = "AwaitingModel"
       /\ req[2].state \in {"Completed", "Failed"}
       /\ Len(Snapshot(s)) = 2

\* ------------------------------------------------------------------- C28
\* The turns of session s that have saved (Completed or Failed), in the order
\* in which they completed.
SavedOf(s) ==
    SelectSeq(doneSeq, LAMBDA r : /\ TurnOf(r, s)
                                  /\ req[r].state \in {"Completed", "Failed"})

\* C28: with no clear of the session since its turns started, the transcript
\* of a session is the human/assistant pair of each turn that has saved, once
\* each, each pair contiguous, in the order in which the turns completed,
\* also when the turns overlapped.
C28_NoLostUpdate ==
    \A s \in Sessions : Snapshot(s) = Exchanges(SavedOf(s))

\* Two turns of one session overlapped: the second called completed first,
\* and both have saved.
C28_Witness ==
    \E s \in Sessions :
       /\ TurnOf(1, s) /\ TurnOf(2, s)
       /\ SavedOf(s) = <<2, 1>>
       /\ Len(Snapshot(s)) = 4
       /\ Snapshot(s)[1].content = req[2].message
       /\ Snapshot(s)[3].content = req[1].message

\* ------------------------------------------------------------------- C29
\* A clear of its session has run since turn r fetched its transcript: the
\* store no longer holds the object the turn holds.
Detached(r) ==
    /\ req[r].pc # "idle"
    /\ memory_store[req[r].session_id] # req[r].memory

\* The step is the one in which the chat turn of request r saves.
ChatTurnSaves(r) ==
    /\ req[r].kind = "chat"
    /\ req[r].state = "AwaitingModel"
    /\ req'[r].state \in {"Completed", "Failed"}

\* The message of turn r is in the snapshot of its session.
InSnapshot(r) ==
    \E i \in 1..Len(Snapshot(req[r].session_id)) :
       Snapshot(req[r].session_id)[i].content = req[r].message

\* C29: a chat turn whose session was cleared while it awaited the model
\* appends its two messages to the transcript it holds and leaves the store
\* as it is (the session is not registered again); and the message of a turn
\* so detached is in no snapshot of its session id, then or later.
C29_DetachedTurn ==
    [][\A r \in Reqs :
          /\ (Detached(r) /\ ChatTurnSaves(r)) =>
                /\ chat_memory'[req[r].memory] =
                      chat_memory[req[r].memory]
                         \o SavedPair(req[r].message, req'[r].answer)
                /\ memory_store' = memory_store
                /\ Snapshot(req[r].session_id)' = Snapshot(req[r].session_id)
          /\ Detached(r)' => ~InSnapshot(r)']_vars

\* The session of a turn was cleared while the turn awaited the model; the
\* turn has saved into its detached transcript, and the session is absent
\* from the store.
C29_Witness ==
    \E r \in Reqs :
       /\ req[r].kind = "chat" /\ req[r].state = "Completed"
       /\ Detached(r)
       /\ memory_store[req[r].session_id] = None
       /\ Len(chat_memory[req[r].memory]) = 2
       /\ Snapshot(req[r].session_id) = <<>>

\* ------------------------------------------------------------------- C30
\* The requests an endpoint has accepted: no other request gets to the
\* external agent.
Invoked == {q \in Reqs : req[q].pc # "idle"}

\* The session ids that have an entry in the store.
Registered == {s \in SessionIds : memory_store[s] # None}

\* C30: a POST to /api/chat or /api/chat/stream that is rejected (400 or 422)
\* for its missing or empty message leaves the session memory store as it
\* was: the session ids registered are the same, the supplied session id in
\* particular gets no entry, every transcript keeps its messages, and no
\* request has newly reached the external agent.
C30_RejectedLeavesStore ==
    [][\A r \in {q \in Reqs : CanStart(q)}, uuid \in Uuids :
       \A body \in BodiesOf(r) :
          ( /\ StatusOf(response') \in {400, 422}
            /\ (~body.json \/ body.message.type # "str"
                            \/ body.message.value = <<>>)
            /\ Posted(r, body, uuid) ) =>
             /\ Registered' = Registered
             /\ body.session_id.value # "" =>
                   memory_store'[body.session_id.value] =
                      memory_store[body.session_id.value]
             /\ \A o \in DOMAIN chat_memory :
                   chat_memory'[o] = chat_memory[o]
             /\ nextObj' = nextObj
             /\ Invoked' = Invoked]_vars

\* A POST to /api/chat was rejected with 400 after the turn of an earlier
\* request had completed on session "s1": the one transcript holds that turn's
\* pair and nothing else, and no other session is registered.
C30_Witness ==
    /\ response.op = "chat"
    /\ StatusOf(response) = 400
    /\ response.req = 2
    /\ req[1].state = "Completed"
    /\ req[2].pc = "idle"
    /\ Registered = {req[1].session_id}
    /\ Len(chat_memory[req[1].memory]) = 2

====
